---- MODULE Spec2Model ----
(***************************************************************************)
(* Ingestion coordinator and document/chunk store of pdf-classaction-rag.  *)
(*                                                                         *)
(* Spec       : concurrent ingest_document calls (one call frame per       *)
(*              worker thread, each with its own connection) and           *)
(*              delete_document calls against one store.  Every database   *)
(*              call commits on its own, so every database call is one     *)
(*              atomic step; the steps of different workers interleave.    *)
(***************************************************************************)
EXTENDS Integers, Sequences, FiniteSets, TLC

(* ---------------------------------------------------------------------- *)
(* Bounds                                                                  *)
(* ---------------------------------------------------------------------- *)
NumWorkers == 2
MaxChunks == 2
MaxCalls == 3

MaxBatch == 2

MaxTopK == 2

MaxCandidates == 3

MaxTexts == 3

MaxPages == 2

MaxLen == 4

Workers == 1..NumWorkers

(* ---------------------------------------------------------------------- *)
(* The file system the calls run against                                   *)
(* ---------------------------------------------------------------------- *)
\* a.pdf and b.pdf are inside the allowed directory; copy.pdf has the bytes
\* of a.pdf but lies outside it; missing.pdf is a path inside the allowed
\* directory with no file; ghost.pdf is a path outside it with no file.
Paths == {"a.pdf", "b.pdf", "copy.pdf", "missing.pdf", "ghost.pdf"}

\* The file the concurrent callers ingest: calls on files of different
\* content share no row, so the races are those of calls on one content.
RacePaths == {"a.pdf"}

exists(path) == path \in {"a.pdf", "b.pdf", "copy.pdf"}

is_relative_to_allowed(path) == path \in {"a.pdf", "b.pdf", "missing.pdf"}

sha256(path) == IF path = "b.pdf" THEN "hb" ELSE "ha"

NoDoc == 0
NoExc == "None"
NoHash == "None"
NoEmbedding == -1

\* Connections to the store: the pipeline's own (self.db), and no connection.
PipelineConn == 0
NoConn == -1

(* ---------------------------------------------------------------------- *)
(* validate_file_path and compute_file_hash                                *)
(* ---------------------------------------------------------------------- *)
\* The exception validate_file_path raises, or NoExc when it returns the
\* resolved path.  allowed is TRUE when allowed_dirs is not None.
validate_file_path_unrestricted(path, allowed) ==
    IF ~exists(path) THEN "FileNotFoundError" ELSE NoExc

validate_file_path_containment_first(path, allowed) ==
    IF allowed /\ ~is_relative_to_allowed(path) THEN "PathValidationError"
    ELSE IF ~exists(path) THEN "FileNotFoundError"
    ELSE NoExc

validate_file_path(path, allowed) ==
    IF ~exists(path) THEN "FileNotFoundError"
    ELSE IF allowed /\ ~is_relative_to_allowed(path) THEN "PathValidationError"
    ELSE NoExc

\* [exc, hash]: compute_file_hash raises FileNotFoundError or returns the digest.
compute_file_hash(path) ==
    IF ~exists(path) THEN [exc |-> "FileNotFoundError", hash |-> NoHash]
    ELSE [exc |-> NoExc, hash |-> sha256(path)]

(* ---------------------------------------------------------------------- *)
(* State                                                                   *)
(* ---------------------------------------------------------------------- *)
VARIABLES
    documents,         \* table documents: rows [id, file_hash, status, error_message]
    chunks,            \* table chunks: rows [document_id, position, embedding]
    next_id,           \* number of document identifiers handed out so far
    embedding_client,  \* the pipeline was built with an embedding client
    allowed_dirs,      \* the pipeline was built with allowed_dirs
    frame,             \* per worker: the local state of its ingest_document call
    hist,              \* per worker: what its current call did and saw (history only)
    produced,          \* per document id: number of chunks the chunker produced (history only)
    seq,               \* the sequential caller's previous call (history only)
    batch,             \* the state of the ingest_batch call
    search,            \* the store a search client queries, and its hybrid_search call
    reranker,          \* the state of the rerank call
    txn,               \* the insert_document_with_chunks call and its open transaction
    embedder,          \* the state of the generate_embeddings call
    validation,        \* the validate_file_path calls made so far and their outcomes
    chunker,           \* the state of the chunk_parsed_document call
    fixed,             \* the state of the fixed_size_chunking call
    ncalls             \* number of calls made to the store's clients so far

vars == <<documents, chunks, next_id, embedding_client, allowed_dirs,
          frame, hist, produced, seq, batch, search, reranker, txn, embedder, validation,
          chunker, fixed, ncalls>>

\* The components that take no part in ingestion, search or reranking.
REST == <<txn, embedder, validation, chunker, fixed>>

\* What a call of insert_document_with_chunks leaves alone.
NOT_TXN == <<frame, hist, produced, seq, batch, embedding_client, allowed_dirs,
             search, reranker, embedder, validation, chunker, fixed>>

\* What a call of generate_embeddings leaves alone.
NOT_EMBED == <<documents, chunks, next_id, ncalls, frame, hist, produced, seq,
               batch, embedding_client, allowed_dirs, search, reranker, txn,
               validation, chunker, fixed>>

\* What a call of validate_file_path leaves alone.
NOT_VALIDATION == <<documents, chunks, next_id, ncalls, frame, hist, produced,
                    seq, batch, embedding_client, allowed_dirs, search, reranker,
                    txn, embedder, chunker, fixed>>

\* What a call of chunk_parsed_document leaves alone.
NOT_CHUNKER == <<documents, chunks, next_id, ncalls, frame, hist, produced, seq,
                 batch, embedding_client, allowed_dirs, search, reranker, txn,
                 embedder, validation, fixed>>

\* What a call of fixed_size_chunking leaves alone.
NOT_FIXED == <<documents, chunks, next_id, ncalls, frame, hist, produced, seq,
               batch, embedding_client, allowed_dirs, search, reranker, txn,
               embedder, validation, chunker>>

(* ---------------------------------------------------------------------- *)
(* PgVectorStore operations, as functions of the table contents            *)
(* ---------------------------------------------------------------------- *)
Ids(docs) == {r.id : r \in docs}

Row(docs, id) == CHOOSE r \in docs : r.id = id

HashRows(docs, file_hash) == {r \in docs : r.file_hash = file_hash}

\* SELECT ... FROM documents WHERE file_hash = %s ; fetchone()
get_document_by_hash(docs, file_hash) ==
    IF HashRows(docs, file_hash) = {} THEN NoDoc
    ELSE (CHOOSE r \in HashRows(docs, file_hash) : TRUE).id

insert_document_unchecked(docs, file_hash) == FALSE

\* The unique index on documents.file_hash rejects the INSERT; the except
\* branch rolls back and re-raises.
insert_document_raises(docs, file_hash) == HashRows(docs, file_hash) # {}

\* INSERT INTO documents ... RETURNING id ; the row starts in status processing.
insert_document(docs, id, file_hash) ==
    docs \cup {[id |-> id, file_hash |-> file_hash,
                status |-> "processing", error_message |-> NoExc]}

delete_document_result_always(docs, id) == TRUE

\* DELETE FROM documents WHERE id = %s ; deleted = rowcount > 0
delete_document_result(docs, id) == id \in Ids(docs)

delete_document_kept(docs, id) == docs

delete_document(docs, id) == {r \in docs : r.id # id}

\* ON DELETE CASCADE of chunks.document_id
cascade(chs, id) == {c \in chs : c.document_id # id}

\* UPDATE documents SET status = %s, error_message = %s WHERE id = %s
update_document_status(docs, id, status, error_message) ==
    {IF r.id = id
     THEN [r EXCEPT !.status = status, !.error_message = error_message]
     ELSE r : r \in docs}

chunk_records_embedded_only(id, embeddings) ==
    {[document_id |-> id, position |-> i - 1, embedding |-> embeddings[i]] :
        i \in {j \in 1..Len(embeddings) : embeddings[j] # NoEmbedding}}

\* The ChunkRecord list of step 7: chunk i of chunk_data_list carries
\* position i-1 (chunk_parsed_document counts from 0) and embeddings[i].
chunk_records(id, embeddings) ==
    {[document_id |-> id, position |-> i - 1, embedding |-> embeddings[i]] :
        i \in 1..Len(embeddings)}

\* The history of a deleted document goes with it.
Forget(prod, id) == [prod EXCEPT ![id] = 0]

(* ---------------------------------------------------------------------- *)
(* Init                                                                    *)
(* ---------------------------------------------------------------------- *)
NoResult ==
    [document |-> NoDoc, chunks_count |-> 0, was_duplicate |-> FALSE, error |-> NoExc]

IdleFrame ==
    [pc |-> "idle", file_path |-> "None", file_hash |-> NoHash,
     existing |-> NoDoc, document |-> NoDoc,
     n_chunks |-> 0, embeddings |-> <<>>,
     exc |-> NoExc, result |-> NoResult, raised |-> NoExc]

NoHist ==
    [hashed |-> FALSE, looked_up |-> FALSE, wrote |-> FALSE,
     saw_error |-> NoDoc, created |-> NoDoc,
     err_attempt |-> NoExc, update_failed |-> FALSE]

NoSeq ==
    [prev_path |-> "None", prev_returned |-> FALSE, prev_result |-> NoResult,
     prev_quiet |-> FALSE, quiet |-> FALSE, absent |-> FALSE]

NoBatch ==
    [pc |-> "idle", file_paths |-> <<>>, max_workers |-> 0,
     i |-> 0, active |-> FALSE, queue |-> <<>>,
     running |-> [p \in Workers |-> 0],
     db |-> [p \in Workers |-> NoConn], open |-> {}, opened |-> 0,
     future |-> <<>>, results_dict |-> <<>>, order |-> <<>>, results |-> <<>>]

NoSearch ==
    [chunks |-> {}, pc |-> "idle",
     query_embedding |-> NoEmbedding, query |-> {}, top_k |-> 0,
     have_vector |-> FALSE, vector |-> <<>>,
     have_lexical |-> FALSE, lexical |-> <<>>, results |-> <<>>]

NoTxn ==
    [pc |-> "idle", file_hash |-> NoHash, n_chunks |-> 0, id |-> NoDoc,
     doc |-> {}, chunks |-> {}, exc |-> NoExc, raised |-> NoExc,
     result |-> NoDoc, seen |-> <<>>]

NoEmbed ==
    [pc |-> "idle", texts |-> <<>>, batches |-> <<>>, batch_indices |-> <<>>,
     b |-> 0, attempt |-> 0, last_error |-> NoExc, outcomes |-> <<>>,
     embeddings |-> <<>>, failed_indices |-> <<>>, errors |-> <<>>,
     last |-> <<>>]

NoChunker ==
    [pc |-> "idle", doc |-> <<>>, chunk_data_list |-> <<>>, rows |-> {}]

NoFixed ==
    [pc |-> "idle", text |-> <<>>, chunk_size |-> 0, overlap |-> 0,
     start |-> 0, chunks |-> <<>>, result |-> <<>>, raised |-> NoExc]

NoRerank ==
    [pc |-> "idle", kind |-> "None", results |-> <<>>, top_k |-> 0,
     calls |-> 0, scores |-> <<>>, failed |-> FALSE,
     reranked |-> <<>>, raised |-> NoExc]

\* No call is in progress.
Quiescent ==
    /\ frame = [p \in Workers |-> IdleFrame]
    /\ hist = [p \in Workers |-> NoHist]
    /\ produced = [d \in 1..MaxCalls |-> 0]
    /\ seq = NoSeq
    /\ batch = NoBatch
    /\ search = NoSearch
    /\ reranker = NoRerank
    /\ txn = NoTxn
    /\ embedder = NoEmbed
    /\ validation = <<>>
    /\ chunker = NoChunker
    /\ fixed = NoFixed
    /\ ncalls = 0

\* The empty store.
Tables ==
    /\ documents = {}
    /\ chunks = {}
    /\ next_id = 0
    /\ Quiescent

\* A pipeline built with an embedding client and allowed_dirs, on an empty store.
Init ==
    /\ Tables
    /\ embedding_client = TRUE
    /\ allowed_dirs = TRUE

\* Any pipeline, on an empty store.
InitSeq ==
    /\ Tables
    /\ embedding_client \in BOOLEAN
    /\ allowed_dirs \in BOOLEAN

(* ---------------------------------------------------------------------- *)
(* ingest_document.  Each database call is one action, as each commits on  *)
(* its own; the statements between two database calls touch only the      *)
(* call's locals and the file, and are taken together with the next call.  *)
(* ---------------------------------------------------------------------- *)
Busy(q) == frame[q].pc \notin {"idle", "done"}

Done(p) == frame[p].pc = "done"

ReturnedOk(p) == Done(p) /\ frame[p].raised = NoExc

\* The frame of a call that has returned res / raised e: the locals are gone.
Returned(f, res) ==
    [IdleFrame EXCEPT !.pc = "done", !.file_path = f.file_path, !.result = res]

Raised(f, e) ==
    [IdleFrame EXCEPT !.pc = "done", !.file_path = f.file_path,
                      !.exc = f.exc, !.raised = e]

DuplicateResult(id) ==
    [document |-> id, chunks_count |-> 0, was_duplicate |-> TRUE, error |-> NoExc]

\* What the client may answer for n texts: one entry per text (an entry is
\* None for a failed text), or one entry too few.
EmbeddingResults(n) ==
    UNION {[1..m -> {NoEmbedding, 1}] : m \in {n - 1, n}}

count_mismatch_ignored(received, expected) == FALSE

\* if len(embedding_result.embeddings) != len(chunk_data_list): raise ValueError
count_mismatch(received, expected) == received # expected

CONFIG == <<embedding_client, allowed_dirs, search, reranker, REST>>

\* A caller starts ingest_document(file_path, db, embedding_client,
\* allowed_dirs): path validation when allowed_dirs is given, then step 1,
\* the file hash.
Start(p, path) ==
    /\ ~Busy(p)
    /\ ncalls < MaxCalls
    /\ ncalls' = ncalls + 1
    /\ LET f == [IdleFrame EXCEPT !.file_path = path]
           v == IF allowed_dirs THEN validate_file_path(path, allowed_dirs) ELSE NoExc
           h == compute_file_hash(path)
       IN IF v # NoExc
          THEN /\ frame' = [frame EXCEPT ![p] = Raised(f, v)]
               /\ hist' = [hist EXCEPT ![p] = NoHist]
          ELSE IF h.exc # NoExc
          THEN /\ frame' = [frame EXCEPT ![p] = Raised(f, h.exc)]
               /\ hist' = [hist EXCEPT ![p] = [NoHist EXCEPT !.hashed = TRUE]]
          ELSE /\ frame' = [frame EXCEPT ![p] =
                      [f EXCEPT !.pc = "lookup", !.file_hash = h.hash]]
               /\ hist' = [hist EXCEPT ![p] = [NoHist EXCEPT !.hashed = TRUE]]
    /\ UNCHANGED <<documents, chunks, next_id, produced, CONFIG>>

Call(p, path) == Start(p, path) /\ UNCHANGED <<seq, batch>>

is_stale_unless_processing(status) == status # "processing"

is_stale_or_processing(status) == status \in {"error", "processing"}

\* if existing.status == "error": the row is stale and is replaced.
is_stale(status) == status = "error"

\* Step 2: existing = db.get_document_by_hash(file_hash) and the branch on it.
Lookup(p) ==
    /\ frame[p].pc = "lookup"
    /\ LET id == get_document_by_hash(documents, frame[p].file_hash)
       IN IF id = NoDoc
          THEN /\ frame' = [frame EXCEPT ![p].pc = "insert"]
               /\ hist' = [hist EXCEPT ![p].looked_up = TRUE]
          ELSE IF is_stale(Row(documents, id).status)
          THEN /\ frame' = [frame EXCEPT ![p].pc = "delete", ![p].existing = id]
               /\ hist' = [hist EXCEPT ![p].looked_up = TRUE, ![p].saw_error = id]
          ELSE /\ frame' = [frame EXCEPT ![p] = Returned(@, DuplicateResult(id))]
               /\ hist' = [hist EXCEPT ![p].looked_up = TRUE]
    /\ UNCHANGED <<documents, chunks, next_id, produced, seq, batch, ncalls, CONFIG>>

Delete_in_place(p) ==
    /\ frame[p].pc = "delete"
    /\ documents' = update_document_status(documents, frame[p].existing,
                                           "processing", NoExc)
    /\ frame' = [frame EXCEPT ![p].pc = "prepare",
                              ![p].document = frame[p].existing,
                              ![p].existing = NoDoc]
    /\ hist' = [hist EXCEPT ![p].wrote = TRUE]
    /\ UNCHANGED <<chunks, produced, next_id, seq, batch, ncalls, CONFIG>>

\* deleted = db.delete_document(existing.id)
Delete(p) ==
    /\ frame[p].pc = "delete"
    /\ LET id == frame[p].existing
       IN IF delete_document_result(documents, id)
          THEN /\ documents' = delete_document(documents, id)
               /\ chunks' = cascade(chunks, id)
               /\ produced' = Forget(produced, id)
               /\ frame' = [frame EXCEPT ![p].pc = "insert", ![p].existing = NoDoc]
               /\ hist' = [hist EXCEPT ![p].wrote = TRUE]
          ELSE /\ frame' = [frame EXCEPT ![p].pc = "refetch", ![p].existing = NoDoc]
               /\ UNCHANGED <<documents, chunks, produced, hist>>
    /\ UNCHANGED <<next_id, seq, batch, ncalls, CONFIG>>

Refetch_skipped(p) ==
    /\ frame[p].pc = "refetch"
    /\ frame' = [frame EXCEPT ![p].pc = "insert"]
    /\ UNCHANGED <<documents, chunks, next_id, hist, produced, seq, batch, ncalls, CONFIG>>

\* existing = db.get_document_by_hash(file_hash) after a delete that found no row
Refetch(p) ==
    /\ frame[p].pc = "refetch"
    /\ LET id == get_document_by_hash(documents, frame[p].file_hash)
       IN IF id # NoDoc
          THEN frame' = [frame EXCEPT ![p] = Returned(@, DuplicateResult(id))]
          ELSE frame' = [frame EXCEPT ![p].pc = "insert"]
    /\ UNCHANGED <<documents, chunks, next_id, hist, produced, seq, batch, ncalls, CONFIG>>

\* Step 3: document = db.insert_document(...), outside the inner try: what
\* insert_document raises leaves ingest_document as it is.
Insert(p) ==
    /\ frame[p].pc = "insert"
    /\ IF insert_document_raises(documents, frame[p].file_hash)
       THEN /\ frame' = [frame EXCEPT ![p] = Raised(@, "UniqueViolation")]
            /\ UNCHANGED <<documents, next_id, hist>>
       ELSE /\ next_id' = next_id + 1
            /\ documents' = insert_document(documents, next_id + 1, frame[p].file_hash)
            /\ frame' = [frame EXCEPT ![p].pc = "prepare", ![p].document = next_id + 1]
            /\ hist' = [hist EXCEPT ![p].wrote = TRUE, ![p].created = next_id + 1]
    /\ UNCHANGED <<chunks, produced, seq, batch, ncalls, CONFIG>>

\* Steps 4 to 6: parse_pdf, which may raise; chunk_parsed_document, n chunks
\* at positions 0..n-1; with a client and at least one chunk,
\* generate_embeddings: a count mismatch raises ValueError, else chunk i
\* gets embeddings[i].
Prepare(p) ==
    /\ frame[p].pc = "prepare"
    /\ \/ /\ frame' = [frame EXCEPT ![p].pc = "except", ![p].exc = "ParseError"]
          /\ UNCHANGED produced
       \/ \E n \in 0..MaxChunks :
             /\ produced' = IF frame[p].document \in Ids(documents)
                            THEN [produced EXCEPT ![frame[p].document] = n]
                            ELSE produced
             /\ IF embedding_client /\ n > 0
                THEN \E embs \in EmbeddingResults(n) :
                        IF count_mismatch(Len(embs), n)
                        THEN frame' = [frame EXCEPT ![p].pc = "except",
                                                    ![p].n_chunks = n,
                                                    ![p].exc = "ValueError"]
                        ELSE frame' = [frame EXCEPT ![p].pc = "insert_chunks",
                                                    ![p].n_chunks = n,
                                                    ![p].embeddings = embs]
                ELSE frame' = [frame EXCEPT ![p].pc = "insert_chunks",
                                            ![p].n_chunks = n,
                                            ![p].embeddings = [i \in 1..n |-> NoEmbedding]]
    /\ UNCHANGED <<documents, chunks, next_id, hist, seq, batch, ncalls, CONFIG>>

InsertChunks_skipped(p) ==
    /\ frame[p].pc = "insert_chunks"
    /\ frame' = [frame EXCEPT ![p].pc = "mark"]
    /\ UNCHANGED <<documents, chunks, next_id, hist, produced, seq, batch, ncalls, CONFIG>>

\* Step 7: inserted_chunks = db.insert_chunks(chunk_records_data); an empty
\* list makes no statement; the insert fails when the document row is gone
\* (foreign key) or the database fails, and then adds no row
InsertChunks(p) ==
    /\ frame[p].pc = "insert_chunks"
    /\ IF frame[p].n_chunks = 0
       THEN /\ frame' = [frame EXCEPT ![p].pc = "mark"]
            /\ UNCHANGED <<chunks, hist>>
       ELSE IF frame[p].document \notin Ids(documents)
       THEN /\ frame' = [frame EXCEPT ![p].pc = "except",
                                      ![p].exc = "InsertChunksError"]
            /\ UNCHANGED <<chunks, hist>>
       ELSE \/ /\ chunks' = chunks \cup
                      chunk_records(frame[p].document, frame[p].embeddings)
               /\ frame' = [frame EXCEPT ![p].pc = "mark"]
               /\ hist' = [hist EXCEPT ![p].wrote = TRUE]
            \/ /\ frame' = [frame EXCEPT ![p].pc = "except",
                                         ![p].exc = "InsertChunksError"]
               /\ UNCHANGED <<chunks, hist>>
    /\ UNCHANGED <<documents, next_id, produced, seq, batch, ncalls, CONFIG>>

\* Step 8: db.update_document_status(document.id, "processed") and the return
MarkProcessed(p) ==
    /\ frame[p].pc = "mark"
    /\ \/ /\ documents' = update_document_status(documents, frame[p].document,
                                                 "processed", NoExc)
          /\ frame' = [frame EXCEPT ![p] =
                 Returned(@, [document |-> frame[p].document,
                              chunks_count |-> frame[p].n_chunks,
                              was_duplicate |-> FALSE, error |-> NoExc])]
          /\ hist' = [hist EXCEPT ![p].wrote = TRUE]
       \/ /\ frame' = [frame EXCEPT ![p].pc = "except", ![p].exc = "StatusUpdateError"]
          /\ UNCHANGED <<documents, hist>>
    /\ UNCHANGED <<chunks, next_id, produced, seq, batch, ncalls, CONFIG>>

propagated_masked(e, update_failed) ==
    IF update_failed THEN "ErrorStatusUpdateError" ELSE e

\* The bare raise that ends the except block: the exception being handled.
propagated(e, update_failed) == e

\* except Exception as e: try db.update_document_status(id, "error", str(e))
\* except Exception: log ; raise
Except(p) ==
    /\ frame[p].pc = "except"
    /\ \/ /\ documents' = update_document_status(documents, frame[p].document,
                                                 "error", frame[p].exc)
          /\ frame' = [frame EXCEPT ![p] = Raised(@, propagated(frame[p].exc, FALSE))]
          /\ hist' = [hist EXCEPT ![p].wrote = TRUE, ![p].err_attempt = frame[p].exc]
       \/ /\ frame' = [frame EXCEPT ![p] = Raised(@, propagated(frame[p].exc, TRUE))]
          /\ hist' = [hist EXCEPT ![p].update_failed = TRUE,
                                  ![p].err_attempt = frame[p].exc]
          /\ UNCHANGED documents
    /\ UNCHANGED <<chunks, next_id, produced, seq, batch, ncalls, CONFIG>>

\* A delete_document call by another client of the store (the delete endpoint).
Remove(id) ==
    /\ id \in Ids(documents)
    /\ ncalls < MaxCalls
    /\ ncalls' = ncalls + 1
    /\ documents' = delete_document(documents, id)
    /\ chunks' = cascade(chunks, id)
    /\ produced' = Forget(produced, id)
    /\ UNCHANGED <<next_id, frame, hist, CONFIG>>

ExternalDelete(id) == Remove(id) /\ UNCHANGED <<seq, batch>>

Next ==
    \/ \E p \in Workers, path \in RacePaths : Call(p, path)
    \/ \E p \in Workers : Lookup(p)
    \/ \E p \in Workers : Delete(p)
    \/ \E p \in Workers : Refetch(p)
    \/ \E p \in Workers : Insert(p)
    \/ \E p \in Workers : Prepare(p)
    \/ \E p \in Workers : InsertChunks(p)
    \/ \E p \in Workers : MarkProcessed(p)
    \/ \E p \in Workers : Except(p)
    \/ \E id \in 1..MaxCalls : ExternalDelete(id)

Spec == Init /\ [][Next]_vars

(* ---------------------------------------------------------------------- *)
(* SpecSeq: one caller makes its ingest_document calls one after another   *)
(* (worker 1), on any path, while documents may be deleted by other        *)
(* clients.                                                                *)
(* ---------------------------------------------------------------------- *)
SeqCall(path) ==
    /\ Start(1, path)
    /\ seq' = [prev_path |-> frame[1].file_path,
               prev_returned |-> frame[1].pc = "done" /\ frame[1].raised = NoExc,
               prev_result |-> frame[1].result,
               prev_quiet |-> seq.quiet,
               quiet |-> TRUE,
               absent |-> exists(path) /\ HashRows(documents, sha256(path)) = {}]
    /\ UNCHANGED batch

SeqExternalDelete(id) ==
    /\ Remove(id)
    /\ seq' = [seq EXCEPT !.quiet = FALSE]
    /\ UNCHANGED batch

NextSeq ==
    \/ \E path \in Paths : SeqCall(path)
    \/ Lookup(1)
    \/ Delete(1)
    \/ Refetch(1)
    \/ Insert(1)
    \/ Prepare(1)
    \/ InsertChunks(1)
    \/ MarkProcessed(1)
    \/ Except(1)
    \/ \E id \in 1..MaxCalls : SeqExternalDelete(id)

SpecSeq == InitSeq /\ [][NextSeq]_vars

(* ---------------------------------------------------------------------- *)
(* SpecBatch: RAGIngestionPipeline.ingest_batch.  With max_workers = 1 the *)
(* calling thread (worker 1) ingests the files in order; otherwise the     *)
(* pool's threads 1..max_workers take the submitted tasks in submission    *)
(* order and the caller gathers the futures as they complete.              *)
(* ---------------------------------------------------------------------- *)
BatchPaths == {"a.pdf", "missing.pdf"}

BatchInputs == UNION {[1..n -> BatchPaths] : n \in 0..MaxBatch}

Total == Len(batch.file_paths)

\* What a finished ingest_document call left: its result or its exception.
Outcome(f) == [path |-> f.file_path, result |-> f.result, raised |-> f.raised]

NoOutcome == [path |-> "None", result |-> NoResult, raised |-> "pending"]

\* results_dict[idx] = result, or IngestResult(error=str(e)) in the except branch
batch_result(outcome) ==
    IF outcome.raised = NoExc THEN outcome.result
    ELSE [NoResult EXCEPT !.error = outcome.raised]

assemble_completion_order(results_dict, total) ==
    [k \in 1..total |-> results_dict[batch.order[k]]]

\* results = [results_dict[i] for i in range(total)]
assemble(results_dict, total) == [k \in 1..total |-> results_dict[k]]

\* pipeline.ingest_batch(file_paths, max_workers=...)
BatchCall(file_paths, max_workers) ==
    /\ batch.pc = "idle"
    /\ batch' = [NoBatch EXCEPT
           !.pc = IF Len(file_paths) = 0 THEN "returned"
                  ELSE IF max_workers = 1 THEN "seq" ELSE "par",
           !.file_paths = file_paths,
           !.max_workers = max_workers,
           !.i = 1,
           !.queue = IF max_workers = 1 THEN <<>>
                     ELSE [k \in 1..Len(file_paths) |-> k],
           !.future = [k \in 1..Len(file_paths) |-> NoOutcome]]
    /\ UNCHANGED <<documents, chunks, next_id, frame, hist, produced, seq, ncalls, CONFIG>>

\* Sequential branch: result = self.ingest(file_path, ...) for file i, which
\* calls ingest_document with db=self.db
BatchSeqIngest ==
    /\ batch.pc = "seq"
    /\ ~batch.active
    /\ batch.i <= Total
    /\ Start(1, batch.file_paths[batch.i])
    /\ batch' = [batch EXCEPT !.active = TRUE, !.db[1] = PipelineConn]
    /\ UNCHANGED seq

\* Sequential branch: results_dict[i] = result, or the error result
BatchSeqStore ==
    /\ batch.pc = "seq"
    /\ batch.active
    /\ Done(1)
    /\ batch' = [batch EXCEPT
           !.active = FALSE,
           !.i = @ + 1,
           !.db[1] = NoConn,
           !.future[batch.i] = Outcome(frame[1]),
           !.results_dict = (batch.i :> batch_result(Outcome(frame[1]))) @@ @,
           !.order = Append(@, batch.i)]
    /\ frame' = [frame EXCEPT ![1] = IdleFrame]
    /\ hist' = [hist EXCEPT ![1] = NoHist]
    /\ UNCHANGED <<documents, chunks, next_id, produced, seq, ncalls, CONFIG>>

worker_db_shared(opened) == PipelineConn

\* worker_db = PgVectorStore(self._connection_string) ; worker_db.connect():
\* a connection no one has had before
worker_db(opened) == opened + 1

\* A pool thread takes the next submitted task: _ingest_worker opens its
\* connection and calls ingest_document with db=worker_db
TaskStart(p) ==
    /\ batch.pc = "par"
    /\ p <= batch.max_workers
    /\ batch.running[p] = 0
    /\ batch.queue # <<>>
    /\ Start(p, batch.file_paths[Head(batch.queue)])
    /\ batch' = [batch EXCEPT !.queue = Tail(@), !.running[p] = Head(batch.queue),
                              !.db[p] = worker_db(batch.opened),
                              !.open = @ \cup {worker_db(batch.opened)},
                              !.opened = @ + 1]
    /\ UNCHANGED seq

\* _ingest_worker returns or raises (finally: disconnect); its future completes
TaskEnd(p) ==
    /\ batch.pc = "par"
    /\ batch.running[p] # 0
    /\ Done(p)
    /\ batch' = [batch EXCEPT !.running[p] = 0,
                              !.db[p] = NoConn,
                              !.open = @ \ {batch.db[p]},
                              !.future[batch.running[p]] = Outcome(frame[p])]
    /\ frame' = [frame EXCEPT ![p] = IdleFrame]
    /\ hist' = [hist EXCEPT ![p] = NoHist]
    /\ UNCHANGED <<documents, chunks, next_id, produced, seq, ncalls, CONFIG>>

\* for future in as_completed(future_to_index): results_dict[idx] = ...
Collect(idx) ==
    /\ batch.pc = "par"
    /\ idx \in 1..Total
    /\ batch.future[idx].raised # "pending"
    /\ idx \notin DOMAIN batch.results_dict
    /\ batch' = [batch EXCEPT
           !.results_dict = (idx :> batch_result(batch.future[idx])) @@ @,
           !.order = Append(@, idx)]
    /\ UNCHANGED <<documents, chunks, next_id, frame, hist, produced, seq, ncalls, CONFIG>>

\* The loop is over: the list is built from the dictionary and returned
BatchReturn ==
    /\ batch.pc \in {"seq", "par"}
    /\ DOMAIN batch.results_dict = 1..Total
    /\ batch' = [batch EXCEPT !.pc = "returned",
                              !.results = assemble(batch.results_dict, Total)]
    /\ UNCHANGED <<documents, chunks, next_id, frame, hist, produced, seq, ncalls, CONFIG>>

\* The row an earlier ingest of a.pdf left when it failed in parsing.
FailedEarlier ==
    update_document_status(insert_document({}, 1, sha256("a.pdf")),
                           1, "error", "ParseError")

\* A pipeline with the defaults of the tests (no client, no allowed_dirs), on
\* an empty store or on a store where an earlier ingest of a.pdf has failed.
InitBatch ==
    /\ \/ documents = {} /\ next_id = 0
       \/ documents = FailedEarlier /\ next_id = 1
    /\ chunks = {}
    /\ Quiescent
    /\ embedding_client = FALSE
    /\ allowed_dirs = FALSE

NextBatch ==
    \/ \E file_paths \in BatchInputs, max_workers \in {1, NumWorkers} :
          BatchCall(file_paths, max_workers)
    \/ BatchSeqIngest
    \/ BatchSeqStore
    \/ \E p \in Workers : TaskStart(p)
    \/ \E p \in Workers : TaskEnd(p)
    \/ \E idx \in 1..MaxBatch : Collect(idx)
    \/ BatchReturn
    \/ \E p \in Workers : Lookup(p)
    \/ \E p \in Workers : Delete(p)
    \/ \E p \in Workers : Refetch(p)
    \/ \E p \in Workers : Insert(p)
    \/ \E p \in Workers : Prepare(p)
    \/ \E p \in Workers : InsertChunks(p)
    \/ \E p \in Workers : MarkProcessed(p)
    \/ \E p \in Workers : Except(p)

SpecBatch == InitBatch /\ [][NextBatch]_vars

(* ---------------------------------------------------------------------- *)
(* SpecLegacy: the ingestion module under src/src, whose ingest_document   *)
(* has no path validation, no status lifecycle and no handler, and whose   *)
(* ingest_batch is one loop on the calling thread (worker 1).              *)
(* ---------------------------------------------------------------------- *)
LegacyInputs == UNION {[1..n -> Paths] : n \in 0..MaxBatch}

\* ingest_batch(file_paths): results = [] ; total = len(file_paths)
LegacyBatchCall(file_paths) ==
    /\ batch.pc = "idle"
    /\ batch' = [NoBatch EXCEPT
           !.pc = "legacy",
           !.file_paths = file_paths,
           !.max_workers = 1,
           !.i = 1,
           !.future = [k \in 1..Len(file_paths) |-> NoOutcome]]
    /\ UNCHANGED <<documents, chunks, next_id, frame, hist, produced, seq, ncalls, CONFIG>>

\* result = self.ingest(file_path, metadata), up to step 1: the file hash
LegacyIngest ==
    /\ batch.pc = "legacy"
    /\ ~batch.active
    /\ batch.i <= Total
    /\ LET f == [IdleFrame EXCEPT !.file_path = batch.file_paths[batch.i]]
           h == compute_file_hash(f.file_path)
       IN frame' = [frame EXCEPT ![1] =
              IF h.exc # NoExc THEN Raised(f, h.exc)
              ELSE [f EXCEPT !.pc = "legacy_lookup", !.file_hash = h.hash]]
    /\ batch' = [batch EXCEPT !.active = TRUE]
    /\ UNCHANGED <<documents, chunks, next_id, hist, produced, seq, ncalls, CONFIG>>

\* Step 2: existing = db.get_document_by_hash(file_hash); a new file is then
\* assessed, parsed and chunked (steps 3 to 5), and a failure there propagates
LegacyLookup ==
    /\ frame[1].pc = "legacy_lookup"
    /\ LET id == get_document_by_hash(documents, frame[1].file_hash)
       IN IF id # NoDoc
          THEN frame' = [frame EXCEPT ![1] = Returned(@, DuplicateResult(id))]
          ELSE \/ frame' = [frame EXCEPT ![1] = Raised(@, "ParseError")]
               \/ \E n \in 0..MaxChunks :
                     frame' = [frame EXCEPT ![1].pc = "legacy_insert",
                                            ![1].n_chunks = n,
                                            ![1].embeddings =
                                                [k \in 1..n |-> NoEmbedding]]
    /\ UNCHANGED <<documents, chunks, next_id, hist, produced, seq, batch, ncalls, CONFIG>>

\* Step 6: document = db.insert_document(...)
LegacyInsert ==
    /\ frame[1].pc = "legacy_insert"
    /\ IF insert_document_raises(documents, frame[1].file_hash)
       THEN /\ frame' = [frame EXCEPT ![1] = Raised(@, "UniqueViolation")]
            /\ UNCHANGED <<documents, next_id>>
       ELSE /\ documents' = insert_document(documents, next_id + 1, frame[1].file_hash)
            /\ next_id' = next_id + 1
            /\ frame' = [frame EXCEPT ![1].pc = "legacy_insert_chunks",
                                      ![1].document = next_id + 1]
    /\ UNCHANGED <<chunks, hist, produced, seq, batch, ncalls, CONFIG>>

\* Step 7: if chunk_records: db.insert_chunks(chunk_records) ; and the return
LegacyInsertChunks ==
    /\ frame[1].pc = "legacy_insert_chunks"
    /\ LET res == [NoResult EXCEPT !.document = frame[1].document,
                                   !.chunks_count = frame[1].n_chunks]
       IN IF frame[1].n_chunks = 0
          THEN /\ frame' = [frame EXCEPT ![1] = Returned(@, res)]
               /\ UNCHANGED chunks
          ELSE \/ /\ chunks' = chunks \cup
                         chunk_records(frame[1].document, frame[1].embeddings)
                  /\ frame' = [frame EXCEPT ![1] = Returned(@, res)]
               \/ /\ frame' = [frame EXCEPT ![1] = Raised(@, "InsertChunksError")]
                  /\ UNCHANGED chunks
    /\ UNCHANGED <<documents, next_id, hist, produced, seq, batch, ncalls, CONFIG>>

\* results.append(result) after a return; the except branch only logs the
\* error and goes on to the next file
LegacyAppend ==
    /\ batch.pc = "legacy"
    /\ batch.active
    /\ Done(1)
    /\ batch' = [batch EXCEPT
           !.active = FALSE,
           !.i = @ + 1,
           !.future[batch.i] = Outcome(frame[1]),
           !.results = IF frame[1].raised = NoExc
                       THEN Append(@, frame[1].result) ELSE @]
    /\ frame' = [frame EXCEPT ![1] = IdleFrame]
    /\ UNCHANGED <<documents, chunks, next_id, hist, produced, seq, ncalls, CONFIG>>

\* return results
LegacyReturn ==
    /\ batch.pc = "legacy"
    /\ batch.i > Total
    /\ batch' = [batch EXCEPT !.pc = "returned"]
    /\ UNCHANGED <<documents, chunks, next_id, frame, hist, produced, seq, ncalls, CONFIG>>

NextLegacy ==
    \/ \E file_paths \in LegacyInputs : LegacyBatchCall(file_paths)
    \/ LegacyIngest
    \/ LegacyLookup
    \/ LegacyInsert
    \/ LegacyInsertChunks
    \/ LegacyAppend
    \/ LegacyReturn

\* The legacy pipeline takes no client and no allowed_dirs; an empty store.
InitLegacy ==
    /\ Tables
    /\ embedding_client = FALSE
    /\ allowed_dirs = FALSE

SpecLegacy == InitLegacy /\ [][NextLegacy]_vars

(* ---------------------------------------------------------------------- *)
(* SpecSearch: the read path.  A chunk row is [id, embedding, content]: the *)
(* embedding is a point (or NoEmbedding) and the distance of two points is  *)
(* their difference; the content is the set of terms of the text.           *)
(* ---------------------------------------------------------------------- *)
Embeddings == {0, 1}

Terms == {"fraud", "earnings"}

Min(a, b) == IF a <= b THEN a ELSE b

\* c.embedding <=> query_embedding
cosine_distance(a, b) == IF a >= b THEN a - b ELSE b - a

\* ORDER BY key LIMIT n: the rows of S in ascending key order, cut after n;
\* the order of rows of equal key is the engine's choice.
OrderByLimit(S, n, key) ==
    {s \in [1..n -> S] :
        /\ \A i, j \in 1..n : i < j => (s[i] # s[j] /\ key[s[i]] <= key[s[j]])
        /\ \A c \in S : (\A i \in 1..n : s[i] # c) =>
                            \A i \in 1..n : key[s[i]] <= key[c]}

similarity_search_with_nulls(chs, query_embedding, top_k) ==
    LET distance == [c \in chs |-> cosine_distance(c.embedding, query_embedding)]
    IN {[i \in 1..Len(s) |-> [chunk |-> s[i].id, score |-> 1 - distance[s[i]]]] :
           s \in OrderByLimit(chs, Min(top_k, Cardinality(chs)), distance)}

\* SELECT ... 1 - (c.embedding <=> q) AS score ... WHERE c.embedding IS NOT
\* NULL ORDER BY c.embedding <=> q LIMIT top_k
similarity_search(chs, query_embedding, top_k) ==
    LET S == {c \in chs : c.embedding # NoEmbedding}
        distance == [c \in S |-> cosine_distance(c.embedding, query_embedding)]
    IN {[i \in 1..Len(s) |-> [chunk |-> s[i].id, score |-> 1 - distance[s[i]]]] :
           s \in OrderByLimit(S, Min(top_k, Cardinality(S)), distance)}

\* The lexical relevance of a text for a query: the matching terms.
bm25_score(content, query) == Cardinality(content \cap query)

\* The lexical leg: chunks with no matching term are left out; descending
\* relevance; at most top_k.
bm25_search(chs, query, top_k) ==
    LET S == {c \in chs : bm25_score(c.content, query) > 0}
        neg_score == [c \in S |-> 0 - bm25_score(c.content, query)]
    IN {[i \in 1..Len(s) |->
            [chunk |-> s[i].id, score |-> bm25_score(s[i].content, query)]] :
           s \in OrderByLimit(S, Min(top_k, Cardinality(S)), neg_score)}

\* The rank of chunk id in a leg's list; 0 when the leg did not return it.
rank_in(leg, id) ==
    IF \E i \in 1..Len(leg) : leg[i].chunk = id
    THEN CHOOSE i \in 1..Len(leg) : leg[i].chunk = id
    ELSE 0

\* Rank fusion: a leg gives more to a better rank and nothing to a chunk it
\* did not return; the fused score adds the two legs.
contribution(leg, id) ==
    IF rank_in(leg, id) = 0 THEN 0 ELSE MaxTopK + 1 - rank_in(leg, id)

fused_score(vector, lexical, id) ==
    contribution(vector, id) + contribution(lexical, id)

merge_concatenated(vector, lexical) ==
    [i \in 1..Len(vector \o lexical) |->
        [chunk |-> (vector \o lexical)[i].chunk,
         score |-> fused_score(vector, lexical, (vector \o lexical)[i].chunk)]]

\* Merge by chunk identity: one candidate per chunk of either list.
merge(vector, lexical) ==
    LET lexical_only(e) == rank_in(vector, e.chunk) = 0
        both == vector \o SelectSeq(lexical, lexical_only)
    IN [i \in 1..Len(both) |->
           [chunk |-> both[i].chunk,
            score |-> fused_score(vector, lexical, both[i].chunk)]]

ranked_padded(candidates, top_k) ==
    {[i \in 1..top_k |->
         IF i <= Len(candidates) THEN candidates[i] ELSE [chunk |-> 0, score |-> 0]]}

\* Sort descending by fused score and truncate to top_k.
ranked(candidates, top_k) ==
    LET n == Len(candidates)
        neg_score == [i \in 1..n |-> 0 - candidates[i].score]
    IN {[i \in 1..Len(s) |-> candidates[s[i]]] :
           s \in OrderByLimit(1..n, Min(top_k, n), neg_score)}

\* db.insert_chunks([record]): the row gets the next id
InsertChunk(embedding, content) ==
    /\ Cardinality(search.chunks) < MaxChunks
    /\ search' = [search EXCEPT !.chunks = @ \cup
           {[id |-> Cardinality(search.chunks) + 1,
             embedding |-> embedding, content |-> content]}]
    /\ UNCHANGED <<documents, chunks, next_id, frame, hist, produced, seq, batch,
                   ncalls, embedding_client, allowed_dirs, reranker, REST>>

\* db.hybrid_search(query_embedding, query, top_k); one call is followed
HybridCall(query_embedding, query, top_k) ==
    /\ search.pc = "idle"
    /\ search' = [NoSearch EXCEPT !.chunks = search.chunks,
                                  !.pc = "legs",
                                  !.query_embedding = query_embedding,
                                  !.query = query,
                                  !.top_k = top_k]
    /\ UNCHANGED <<documents, chunks, next_id, frame, hist, produced, seq, batch,
                   ncalls, embedding_client, allowed_dirs, reranker, REST>>

\* Step 1, the vector leg
VectorLeg ==
    /\ search.pc = "legs"
    /\ ~search.have_vector
    /\ \E r \in similarity_search(search.chunks, search.query_embedding, search.top_k) :
          search' = [search EXCEPT !.have_vector = TRUE, !.vector = r]
    /\ UNCHANGED <<documents, chunks, next_id, frame, hist, produced, seq, batch,
                   ncalls, embedding_client, allowed_dirs, reranker, REST>>

\* Step 1, the lexical leg
LexicalLeg ==
    /\ search.pc = "legs"
    /\ ~search.have_lexical
    /\ \E r \in bm25_search(search.chunks, search.query, search.top_k) :
          search' = [search EXCEPT !.have_lexical = TRUE, !.lexical = r]
    /\ UNCHANGED <<documents, chunks, next_id, frame, hist, produced, seq, batch,
                   ncalls, embedding_client, allowed_dirs, reranker, REST>>

\* Steps 2 to 4: merge, sort, truncate, return
Merge ==
    /\ search.pc = "legs"
    /\ search.have_vector /\ search.have_lexical
    /\ \E r \in ranked(merge(search.vector, search.lexical), search.top_k) :
          search' = [search EXCEPT !.pc = "returned", !.results = r]
    /\ UNCHANGED <<documents, chunks, next_id, frame, hist, produced, seq, batch,
                   ncalls, embedding_client, allowed_dirs, reranker, REST>>

NextSearch ==
    \/ \E embedding \in Embeddings \cup {NoEmbedding}, content \in SUBSET Terms :
          InsertChunk(embedding, content)
    \/ \E query_embedding \in Embeddings, query \in SUBSET Terms, top_k \in 1..MaxTopK :
          HybridCall(query_embedding, query, top_k)
    \/ VectorLeg
    \/ LexicalLeg
    \/ Merge

\* An empty store; the pipeline plays no part.
InitSearch ==
    /\ Tables
    /\ embedding_client = FALSE
    /\ allowed_dirs = FALSE

SpecSearch == InitSearch /\ [][NextSearch]_vars

(* ---------------------------------------------------------------------- *)
(* SpecRerank: Reranker.rerank(query, results, top_k) of CohereReranker    *)
(* and CrossEncoderReranker.  A candidate is a SearchResult [chunk,        *)
(* document, score]; the backing model gives each candidate text a score.  *)
(* ---------------------------------------------------------------------- *)
Rerankers == {"CohereReranker", "CrossEncoderReranker"}

\* The relevance scores the backing model can give.
Scores == {0, 1, 2}

\* The first-pass score the candidates come with; no model score equals it.
InputScore == 9

document_of(chunk) == (chunk % 2) + 1

SearchResult(chunk) ==
    [chunk |-> chunk, document |-> document_of(chunk), score |-> InputScore]

\* The candidate lists: up to MaxCandidates results of distinct chunks.
CandidateLists ==
    {[i \in 1..Len(s) |-> SearchResult(s[i])] :
        s \in {t \in UNION {[1..n -> 1..MaxCandidates] : n \in 0..MaxCandidates} :
                  \A i, j \in 1..Len(t) : i # j => t[i] # t[j]}}

\* The rerank API: the top_n documents by relevance, best first, each with
\* its index in the request (from 0) and its relevance score.
cohere_rerank(scores, top_n) ==
    LET n == Len(scores)
        neg_score == [i \in 1..n |-> 0 - scores[i]]
    IN {[k \in 1..Len(s) |-> [index |-> s[k] - 1, relevance_score |-> scores[s[k]]]] :
           s \in OrderByLimit(1..n, Min(top_n, n), neg_score)}

positional(results, item, k) == results[k]

\* original = results[item.index]
original(results, item, k) == results[item.index + 1]

\* for item in response.results: reranked.append(SearchResult(chunk=
\* original.chunk, score=item.relevance_score, document=original.document))
cohere_reranked(results, response) ==
    [k \in 1..Len(response) |->
        [chunk |-> original(results, response[k], k).chunk,
         document |-> original(results, response[k], k).document,
         score |-> response[k].relevance_score]]

unsorted(scores) == [k \in 1..Len(scores) |-> k]

\* scored.sort(key=lambda x: x[0], reverse=True): the positions in descending
\* score order; the sort is stable, equal scores keep their input order
sort_reverse(scores) ==
    CHOOSE p \in [1..Len(scores) -> 1..Len(scores)] :
        \A i, j \in 1..Len(scores) : i < j =>
            \/ scores[p[i]] > scores[p[j]]
            \/ (scores[p[i]] = scores[p[j]] /\ p[i] < p[j])

\* scored = list(zip(scores, results)); sort; scored[:top_k]; rebuild
cross_encoder_reranked(results, scores, top_k) ==
    LET p == sort_reverse(scores)
    IN [k \in 1..Min(top_k, Len(results)) |->
           [chunk |-> results[p[k]].chunk,
            document |-> results[p[k]].document,
            score |-> scores[p[k]]]]

fallback_to_candidates(r, e) ==
    [r EXCEPT !.pc = "returned", !.failed = TRUE, !.reranked = r.results]

\* No handler surrounds the call of the backing model: its error leaves rerank
unhandled(r, e) == [r EXCEPT !.pc = "raised", !.failed = TRUE, !.raised = e]

call_model_always(results) == TRUE

\* if not results: return []
call_model(results) == results # <<>>

\* reranker.rerank(query, results, top_k) up to the call of the backing model
RerankCall(kind, results, top_k) ==
    /\ reranker.pc = "idle"
    /\ reranker' = [NoRerank EXCEPT
           !.kind = kind, !.results = results, !.top_k = top_k,
           !.pc = IF call_model(results) THEN "model" ELSE "returned",
           !.calls = IF call_model(results) THEN 1 ELSE 0]
    /\ UNCHANGED <<documents, chunks, next_id, frame, hist, produced, seq, batch,
                   ncalls, embedding_client, allowed_dirs, search, REST>>

\* response = self._client.rerank(model, query, documents, top_n=top_k) and
\* the loop over response.results
CohereRespond ==
    /\ reranker.pc = "model"
    /\ reranker.kind = "CohereReranker"
    /\ \/ reranker' = unhandled(reranker, "ApiError")
       \/ \E scores \in [1..Len(reranker.results) -> Scores] :
          \E response \in cohere_rerank(scores, reranker.top_k) :
             reranker' = [reranker EXCEPT
                 !.pc = "returned", !.scores = scores,
                 !.reranked = cohere_reranked(reranker.results, response)]
    /\ UNCHANGED <<documents, chunks, next_id, frame, hist, produced, seq, batch,
                   ncalls, embedding_client, allowed_dirs, search, REST>>

\* scores = self._model.predict(pairs) and the sort, cut and rebuild
CrossEncoderRespond ==
    /\ reranker.pc = "model"
    /\ reranker.kind = "CrossEncoderReranker"
    /\ \/ reranker' = unhandled(reranker, "ModelError")
       \/ \E scores \in [1..Len(reranker.results) -> Scores] :
             reranker' = [reranker EXCEPT
                 !.pc = "returned", !.scores = scores,
                 !.reranked = cross_encoder_reranked(reranker.results, scores,
                                                     reranker.top_k)]
    /\ UNCHANGED <<documents, chunks, next_id, frame, hist, produced, seq, batch,
                   ncalls, embedding_client, allowed_dirs, search, REST>>

\* A reranker with its client or model loaded; the store plays no part.
InitRerank ==
    /\ Tables
    /\ embedding_client = FALSE
    /\ allowed_dirs = FALSE

NextRerank ==
    \/ \E kind \in Rerankers, results \in CandidateLists, top_k \in 1..MaxTopK :
          RerankCall(kind, results, top_k)
    \/ CohereRespond
    \/ CrossEncoderRespond

SpecRerank == InitRerank /\ [][NextRerank]_vars

(* ---------------------------------------------------------------------- *)
(* SpecTxn: PgVectorStore.insert_document_with_chunks on one connection,   *)
(* and the queries of readers on other connections.  The statements of the *)
(* call run in the connection's open transaction: the rows they write are  *)
(* in txn.doc and txn.chunks until the commit, and a reader's query sees   *)
(* the committed tables only.                                              *)
(* ---------------------------------------------------------------------- *)
Hashes == {"ha", "hb"}

\* db.insert_document_with_chunks(file_hash, file_path, chunks)
TxnCall(file_hash, n) ==
    /\ txn.pc \in {"idle", "returned", "raised"}
    /\ ncalls < MaxCalls
    /\ ncalls' = ncalls + 1
    /\ txn' = [NoTxn EXCEPT !.pc = "insert_document",
                            !.file_hash = file_hash, !.n_chunks = n]
    /\ UNCHANGED <<documents, chunks, next_id, NOT_TXN>>

\* cur.execute(INSERT INTO documents ... RETURNING id ...): the unique index
\* on file_hash rejects a second row of a hash
TxnInsertDocument ==
    /\ txn.pc = "insert_document"
    /\ IF insert_document_raises(documents, txn.file_hash)
       THEN /\ txn' = [txn EXCEPT !.pc = "except", !.exc = "UniqueViolation"]
            /\ UNCHANGED next_id
       ELSE /\ next_id' = next_id + 1
            /\ txn' = [txn EXCEPT !.pc = "insert_chunks", !.id = next_id + 1,
                          !.doc = insert_document({}, next_id + 1, txn.file_hash)]
    /\ UNCHANGED <<documents, chunks, ncalls, NOT_TXN>>

\* if chunks: execute_values(cur, INSERT INTO chunks ...), each chunk with
\* the new document's id, its own position and no embedding
TxnInsertChunks ==
    /\ txn.pc = "insert_chunks"
    /\ IF txn.n_chunks = 0
       THEN txn' = [txn EXCEPT !.pc = "commit"]
       ELSE \/ txn' = [txn EXCEPT !.pc = "commit",
                          !.chunks = chunk_records(txn.id,
                                        [i \in 1..txn.n_chunks |-> NoEmbedding])]
            \/ txn' = [txn EXCEPT !.pc = "except", !.exc = "InsertChunksError"]
    /\ UNCHANGED <<documents, chunks, next_id, ncalls, NOT_TXN>>

\* self.conn.commit() and the return of (doc, inserted_chunks)
TxnCommit ==
    /\ txn.pc = "commit"
    /\ \/ /\ documents' = documents \cup txn.doc
          /\ chunks' = chunks \cup txn.chunks
          /\ txn' = [txn EXCEPT !.pc = "returned", !.result = txn.id,
                                !.doc = {}, !.chunks = {}]
       \/ /\ txn' = [txn EXCEPT !.pc = "except", !.exc = "CommitError"]
          /\ UNCHANGED <<documents, chunks>>
    /\ UNCHANGED <<next_id, ncalls, NOT_TXN>>

TxnExcept_without_rollback ==
    /\ txn.pc = "except"
    /\ documents' = documents \cup txn.doc
    /\ chunks' = chunks \cup txn.chunks
    /\ txn' = [txn EXCEPT !.pc = "raised", !.raised = txn.exc,
                          !.doc = {}, !.chunks = {}]
    /\ UNCHANGED <<next_id, ncalls, NOT_TXN>>

\* except Exception as e: self.conn.rollback() ; log ; raise
TxnExcept ==
    /\ txn.pc = "except"
    /\ txn' = [txn EXCEPT !.pc = "raised", !.raised = txn.exc,
                          !.doc = {}, !.chunks = {}]
    /\ UNCHANGED <<documents, chunks, next_id, ncalls, NOT_TXN>>

\* A reader's query on another connection while the call is at work or
\* over: whether it sees the call's document, and how many of its chunks.
TxnRead ==
    /\ txn.id # NoDoc
    /\ txn' = [txn EXCEPT !.seen =
           <<txn.id \in Ids(documents),
             Cardinality({c \in chunks : c.document_id = txn.id})>>]
    /\ UNCHANGED <<documents, chunks, next_id, ncalls, NOT_TXN>>

NextTxn ==
    \/ \E file_hash \in Hashes, n \in 0..MaxChunks : TxnCall(file_hash, n)
    \/ TxnInsertDocument
    \/ TxnInsertChunks
    \/ TxnCommit
    \/ TxnExcept
    \/ TxnRead

\* A connected store with empty tables; the pipeline plays no part.
InitTxn ==
    /\ Tables
    /\ embedding_client = FALSE
    /\ allowed_dirs = FALSE

SpecTxn == InitTxn /\ [][NextTxn]_vars

(* ---------------------------------------------------------------------- *)
(* SpecEmbed: EmbeddingClient.generate_embeddings.  A text is [name,       *)
(* tokens]: its place in the caller's list, which tells texts apart, and   *)
(* its estimated token count in units of half the batch limit.  The        *)
(* embedding of a text is its name.  Each call of the embeddings API is    *)
(* one step.                                                               *)
(* ---------------------------------------------------------------------- *)
\* MAX_TOKENS_PER_BATCH = 100_000, in units of 50,000 tokens
MAX_TOKENS_PER_BATCH == 2

\* MAX_RETRIES = 3
MAX_RETRIES == 3

TokenCounts == 0..MAX_TOKENS_PER_BATCH

TextLists ==
    {[i \in 1..Len(t) |-> [name |-> i, tokens |-> t[i]]] :
        t \in UNION {[1..m -> TokenCounts] : m \in 0..MaxTexts}}

\* len(text) // 4
estimate_tokens(text) == text.tokens

\* The vector the model gives a text.
embedding_of(text) == text.name

\* The loop of _split_into_batches from text k on
RECURSIVE split(_, _, _, _, _)
split(texts, k, batches, current_batch, current_tokens) ==
    IF k > Len(texts)
    THEN IF current_batch # <<>> THEN Append(batches, current_batch) ELSE batches
    ELSE LET text == texts[k]
             text_tokens == estimate_tokens(text)
         IN IF text_tokens >= MAX_TOKENS_PER_BATCH
            THEN split(texts, k + 1,
                       Append(IF current_batch # <<>>
                              THEN Append(batches, current_batch) ELSE batches,
                              <<text>>),
                       <<>>, 0)
            ELSE IF current_tokens + text_tokens > MAX_TOKENS_PER_BATCH
            THEN split(texts, k + 1, Append(batches, current_batch),
                       <<text>>, text_tokens)
            ELSE split(texts, k + 1, batches, Append(current_batch, text),
                       current_tokens + text_tokens)

split_into_batches(texts) == split(texts, 1, <<>>, <<>>, 0)

\* The sum of the lengths of the first b batches
RECURSIVE texts_before(_, _)
texts_before(batches, b) ==
    IF b = 0 THEN 0 ELSE texts_before(batches, b - 1) + Len(batches[b])

get_batch_indices_from_zero(texts, batches) ==
    [b \in 1..Len(batches) |-> [k \in 1..Len(batches[b]) |-> k - 1]]

\* _get_batch_indices: indices = list(range(current_idx, current_idx +
\* len(batch))) ; current_idx += len(batch).  Indices count from 0.
get_batch_indices(texts, batches) ==
    [b \in 1..Len(batches) |->
        [k \in 1..Len(batches[b]) |-> texts_before(batches, b - 1) + k - 1]]

\* What the API may answer for a batch: one item per text, each with its
\* index in the request (from 0) and the text's embedding, in any order.
Responses(texts) ==
    {[k \in 1..Len(texts) |->
         [index |-> order[k] - 1, embedding |-> embedding_of(texts[order[k]])]] :
        order \in {o \in [1..Len(texts) -> 1..Len(texts)] :
                      \A i, j \in 1..Len(texts) : i # j => o[i] # o[j]}}

\* embeddings = [None] * len(texts) ; for item in response.data:
\* embeddings[item.index] = item.embedding
by_item_index(response) ==
    [k \in 1..Len(response) |->
        (CHOOSE item \in {response[j] : j \in 1..Len(response)} :
            item.index = k - 1).embedding]

\* [None] * len(texts)
all_none(n) == [k \in 1..n |-> NoEmbedding]

\* for i, embedding in zip(indices, batch_result["embeddings"]):
\* result.embeddings[i] = embedding
merged(embeddings, indices, batch_embeddings) ==
    [i \in 1..Len(embeddings) |->
        IF \E k \in 1..Len(indices) : indices[k] = i - 1
        THEN batch_embeddings[CHOOSE k \in 1..Len(indices) : indices[k] = i - 1]
        ELSE embeddings[i]]

\* The rest of the loop body of generate_embeddings once
\* _generate_batch_with_retry has returned {embeddings, error} after the
\* given outcomes of its API calls, and the return after the last batch.
BatchDone(e, outcomes, reordered, batch_embeddings, error) ==
    LET indices == e.batch_indices[e.b] IN
    [e EXCEPT
        !.embeddings = merged(e.embeddings, indices, batch_embeddings),
        !.failed_indices = IF error # NoExc THEN @ \o indices ELSE @,
        !.errors = IF error # NoExc
                   THEN [i \in {indices[k] : k \in 1..Len(indices)} |-> error] @@ @
                   ELSE @,
        !.last = <<[outcomes |-> outcomes, reordered |-> reordered,
                    embeddings |-> batch_embeddings, error |-> error]>>,
        !.outcomes = <<>>,
        !.b = @ + 1,
        !.attempt = 0,
        !.last_error = NoExc,
        !.pc = IF e.b = Len(e.batches) THEN "returned" ELSE "batch"]

\* client.generate_embeddings(texts) up to the first API call
EmbedCall(texts) ==
    /\ embedder.pc = "idle"
    /\ embedder' =
          IF texts = <<>>
          THEN [NoEmbed EXCEPT !.pc = "returned"]
          ELSE [NoEmbed EXCEPT
                   !.pc = "batch", !.texts = texts,
                   !.batches = split_into_batches(texts),
                   !.batch_indices = get_batch_indices(texts, split_into_batches(texts)),
                   !.embeddings = all_none(Len(texts)),
                   !.b = 1]
    /\ UNCHANGED NOT_EMBED

Errors == {"RateLimitError", "ServerError", "ClientError", "Exception"}

retryable_always(error) == TRUE

\* except RateLimitError, and except APIStatusError with status_code >= 500:
\* sleep and go round the loop; any other error returns at once
retryable(error) == error \in {"RateLimitError", "ServerError"}

\* self._client.embeddings.create(model, input=texts) answers: the batch is
\* done
ApiSuccess ==
    /\ embedder.pc = "batch"
    /\ \E response \in Responses(embedder.batches[embedder.b]) :
          embedder' = BatchDone(embedder, Append(embedder.outcomes, "ok"),
                                response[1].index # 0,
                                by_item_index(response), NoExc)
    /\ UNCHANGED NOT_EMBED

\* self._client.embeddings.create raises: the loop of range(MAX_RETRIES) goes
\* on after a retryable error while attempts are left, and the batch is done,
\* all None, otherwise
ApiError(error) ==
    /\ embedder.pc = "batch"
    /\ embedder' =
          IF retryable(error) /\ embedder.attempt + 1 < MAX_RETRIES
          THEN [embedder EXCEPT !.attempt = @ + 1, !.last_error = error,
                                !.outcomes = Append(@, error)]
          ELSE BatchDone(embedder, Append(embedder.outcomes, error), FALSE,
                         all_none(Len(embedder.batches[embedder.b])), error)
    /\ UNCHANGED NOT_EMBED

NextEmbed ==
    \/ \E texts \in TextLists : EmbedCall(texts)
    \/ ApiSuccess
    \/ \E error \in Errors : ApiError(error)

\* A client with its API key; the store plays no part.
InitEmbed ==
    /\ Tables
    /\ embedding_client = TRUE
    /\ allowed_dirs = FALSE

SpecEmbed == InitEmbed /\ [][NextEmbed]_vars

(* ---------------------------------------------------------------------- *)
(* SpecValidate: validate_file_path called on its own, with and without    *)
(* allowed_dirs, on the paths of the file system above.                    *)
(* ---------------------------------------------------------------------- *)
\* validate_file_path(file_path, allowed_dirs) returns or raises
Validate(path, allowed) ==
    /\ Len(validation) < MaxCalls
    /\ validation' = Append(validation,
           [file_path |-> path, allowed |-> allowed,
            raised |-> validate_file_path(path, allowed)])
    /\ UNCHANGED NOT_VALIDATION

NextValidate == \E path \in Paths, allowed \in BOOLEAN : Validate(path, allowed)

\* No pipeline and no store take part.
InitValidate ==
    /\ Tables
    /\ embedding_client = FALSE
    /\ allowed_dirs = FALSE

SpecValidate == InitValidate /\ [][NextValidate]_vars

(* ---------------------------------------------------------------------- *)
(* SpecChunk: chunk_parsed_document, and step 7 of ingest_document on its  *)
(* result.  A page is [texts, tables]: the chunk texts the chunking        *)
(* strategy returns for the page's block groups, in order, each "text" or  *)
(* "blank" (only white space), and the page's tables, each "table" or      *)
(* "empty" (no header and no row).                                         *)
(* ---------------------------------------------------------------------- *)
SeqsUpTo(S, n) == UNION {[1..m -> S] : m \in 0..n}

PageSet ==
    [texts : {<<>>, <<"text">>, <<"blank">>, <<"text", "text">>,
              <<"text", "blank">>, <<"blank", "text">>},
     tables : {<<>>, <<"table">>, <<"empty">>}]

ParsedDocuments == SeqsUpTo(PageSet, MaxPages)

\* if chunk_text.strip() ; if table_lines
emitted(item) == item \in {"text", "table"}

\* The loop over the chunk texts, or over the tables, of one page: each
\* emitted item is appended with the running position, which then goes up
RECURSIVE emit(_, _, _, _)
emit(items, chunk_type, page_number, position) ==
    IF items = <<>> THEN <<>>
    ELSE IF emitted(Head(items))
    THEN <<[chunk_type |-> chunk_type, page_number |-> page_number,
            position |-> position]>>
         \o emit(Tail(items), chunk_type, page_number, position + 1)
    ELSE emit(Tail(items), chunk_type, page_number, position)

start_position_per_page(page_number, position) == 0

\* position = 0 comes before the loop over the pages: a page goes on from
\* the position the page before it ended with
start_position(page_number, position) == position

\* The body of the loop over the pages: the text chunks, then the tables
page_chunks(page, page_number, position) ==
    LET text_chunks == emit(page.texts, "paragraph", page_number, position)
    IN text_chunks \o
       emit(page.tables, "table", page_number, position + Len(text_chunks))

RECURSIVE chunk_pages(_, _, _)
chunk_pages(pages, k, position) ==
    IF k > Len(pages) THEN <<>>
    ELSE LET these == page_chunks(pages[k], k, start_position(k, position))
         IN these \o chunk_pages(pages, k + 1,
                                 start_position(k, position) + Len(these))

chunk_parsed_document(doc) == chunk_pages(doc, 1, 0)

\* chunk_records_data = [ChunkRecord(document_id=document.id, ...,
\* position=chunk.position, embedding=chunk.embedding, ...) for chunk in
\* chunk_data_list], with no embedding client
chunk_records_data(id, chunk_data_list) ==
    {[document_id |-> id, position |-> chunk_data_list[i].position,
      embedding |-> NoEmbedding] : i \in 1..Len(chunk_data_list)}

\* Step 5: chunk_data_list = chunk_parsed_document(parsed_doc)
ChunkCall(doc) ==
    /\ chunker.pc = "idle"
    /\ chunker' = [chunker EXCEPT !.pc = "chunked", !.doc = doc,
                                  !.chunk_data_list = chunk_parsed_document(doc)]
    /\ UNCHANGED NOT_CHUNKER

\* Step 7: the ChunkRecord list is built and inserted for document 1
ChunkStore ==
    /\ chunker.pc = "chunked"
    /\ chunker' = [chunker EXCEPT !.pc = "stored",
                      !.rows = chunk_records_data(1, chunker.chunk_data_list)]
    /\ UNCHANGED NOT_CHUNKER

NextChunk ==
    \/ \E doc \in ParsedDocuments : ChunkCall(doc)
    \/ ChunkStore

\* No client; the store plays no part.
InitChunk ==
    /\ Tables
    /\ embedding_client = FALSE
    /\ allowed_dirs = FALSE

SpecChunk == InitChunk /\ [][NextChunk]_vars

(* ---------------------------------------------------------------------- *)
(* SpecFixed: fixed_size_chunking.  A text is a sequence of characters,    *)
(* "a" or " "; indices are Python's, from 0, and the slice and rfind       *)
(* bounds are normalised as Python normalises them.                        *)
(* ---------------------------------------------------------------------- *)
Texts == SeqsUpTo({"a", " "}, MaxLen)

Sizes == 0..(MaxLen - 1)

\* A slice bound: a negative one counts from the end, and both are clipped
\* to 0..len
slice_index(i, len) ==
    IF i < 0 THEN (IF len + i < 0 THEN 0 ELSE len + i)
    ELSE IF i > len THEN len ELSE i

\* text[start:end]
slice(text, start, end) ==
    LET s == slice_index(start, Len(text))
        e == slice_index(end, Len(text))
    IN IF s >= e THEN <<>> ELSE SubSeq(text, s + 1, e)

\* text.rfind(" ", start, end): the highest index of a space in
\* text[start:end], or -1
rfind_space(text, start, end) ==
    LET s == slice_index(start, Len(text))
        e == slice_index(end, Len(text))
        found == {i \in s..(e - 1) : text[i + 1] = " "}
    IN IF found = {} THEN -1
       ELSE CHOOSE i \in found : \A j \in found : j <= i

\* text.strip()
RECURSIVE lstrip(_)
lstrip(text) ==
    IF text # <<>> /\ Head(text) = " " THEN lstrip(Tail(text)) ELSE text

RECURSIVE rstrip(_)
rstrip(text) ==
    IF text # <<>> /\ text[Len(text)] = " "
    THEN rstrip(SubSeq(text, 1, Len(text) - 1)) ELSE text

strip(text) == rstrip(lstrip(text))

\* [c for c in chunks if c]
RECURSIVE non_empty(_)
non_empty(cs) ==
    IF cs = <<>> THEN <<>>
    ELSE IF Head(cs) # <<>> THEN <<Head(cs)>> \o non_empty(Tail(cs))
    ELSE non_empty(Tail(cs))

\* The end of the chunk that starts at start: start + chunk_size, cut back
\* to the last space of the chunk when the text goes on after it and that
\* space lies after start
chunk_end(text, start, chunk_size) ==
    LET end == start + chunk_size
        last_space == rfind_space(text, start, end)
    IN IF end < Len(text) /\ last_space > start THEN last_space ELSE end

\* The call up to the loop: the early returns, the ValueError, start = 0
FixedCall(text, chunk_size, overlap) ==
    /\ fixed.pc = "idle"
    /\ fixed' =
          LET f == [fixed EXCEPT !.text = text, !.chunk_size = chunk_size,
                                 !.overlap = overlap]
          IN IF text = <<>> \/ chunk_size <= 0
             THEN [f EXCEPT !.pc = "returned", !.result = <<>>]
             ELSE IF overlap >= chunk_size
             THEN [f EXCEPT !.pc = "raised", !.raised = "ValueError"]
             ELSE IF Len(text) <= chunk_size
             THEN [f EXCEPT !.pc = "returned", !.result = <<text>>]
             ELSE [f EXCEPT !.pc = "loop", !.start = 0, !.chunks = <<>>]
    /\ UNCHANGED NOT_FIXED

\* One test of the while condition and, when it holds, one run of the
\* loop's body; the model follows a call for MaxLen + 1 iterations
FixedIterate ==
    /\ fixed.pc = "loop"
    /\ Len(fixed.chunks) <= MaxLen
    /\ fixed' =
          IF ~(fixed.start < Len(fixed.text))
          THEN [fixed EXCEPT !.pc = "returned",
                             !.result = non_empty(fixed.chunks)]
          ELSE LET end == chunk_end(fixed.text, fixed.start, fixed.chunk_size)
                   appended == Append(fixed.chunks,
                                      strip(slice(fixed.text, fixed.start, end)))
               IN IF end >= Len(fixed.text)
                  THEN [fixed EXCEPT !.pc = "returned", !.chunks = appended,
                                     !.result = non_empty(appended)]
                  ELSE [fixed EXCEPT !.chunks = appended,
                                     !.start = end - fixed.overlap]
    /\ UNCHANGED NOT_FIXED

NextFixed ==
    \/ \E text \in Texts, chunk_size \in Sizes, overlap \in Sizes :
          FixedCall(text, chunk_size, overlap)
    \/ FixedIterate

InitFixed ==
    /\ Tables
    /\ embedding_client = FALSE
    /\ allowed_dirs = FALSE

SpecFixed == InitFixed /\ [][NextFixed]_vars

TypeOK ==
    /\ \A r \in documents : r.status \in {"processing", "processed", "error"}
    /\ next_id \in 0..MaxCalls

(* ====================================================================== *)
(* Properties                                                              *)
(* ====================================================================== *)
StoredPositions(id) == {c.position : c \in {x \in chunks : x.document_id = id}}

\* C1 (SpecSeq): of two successive ingest_document calls on the same
\* unchanged file, with no delete by another client in between, the first
\* - made when the store has no row of the file's hash - returns
\* was_duplicate = FALSE, and the second returns was_duplicate = TRUE, the
\* first result's document and chunks_count = 0.
C1_SecondIngestIsDuplicate ==
    ReturnedOk(1) =>
        /\ seq.absent => ~frame[1].result.was_duplicate
        /\ ( /\ seq.prev_returned
             /\ seq.prev_path = frame[1].file_path
             /\ ~seq.prev_result.was_duplicate
             /\ seq.prev_quiet /\ seq.quiet )
           => /\ frame[1].result.was_duplicate
              /\ frame[1].result.document = seq.prev_result.document
              /\ frame[1].result.chunks_count = 0

W1_SecondIngestIsDuplicate ==
    /\ ReturnedOk(1)
    /\ seq.prev_returned /\ seq.prev_path = frame[1].file_path
    /\ ~seq.prev_result.was_duplicate /\ seq.prev_result.chunks_count > 0
    /\ seq.prev_quiet /\ seq.quiet
    /\ frame[1].result.was_duplicate

\* C2 (Spec): in every reachable state the store holds at most one document
\* row per content hash, and an insert_document whose hash already has a
\* row raises and leaves the table as it was.
UniqueHash ==
    \A r1 \in documents : \A r2 \in documents :
        r1.file_hash = r2.file_hash => r1 = r2

ConflictingInsertFails ==
    \A p \in Workers :
        ( /\ frame[p].pc = "insert"
          /\ HashRows(documents, frame[p].file_hash) # {}
          /\ frame'[p] # frame[p] )
        => /\ documents' = documents
           /\ frame'[p].raised = "UniqueViolation"

C2_OneRowPerHash == []UniqueHash /\ [][ConflictingInsertFails]_vars

W2_OneRowPerHash ==
    \E p \in Workers :
        /\ frame[p].raised = "UniqueViolation"
        /\ Cardinality(HashRows(documents, sha256(frame[p].file_path))) = 1

\* C3 (Spec): an ingest_document call that lost the race to insert its
\* file's row returns a duplicate result; the uniqueness violation never
\* reaches its caller.
C3_LoserReturnsDuplicate ==
    \A p \in Workers : Done(p) => frame[p].raised # "UniqueViolation"

\* C4 (Spec): the document row exists, in status processing, before
\* parsing starts, and a document in status processed has every chunk the
\* chunker produced for it in the store.
C4_ProcessedHasAllChunks ==
    /\ \A p \in Workers :
          frame[p].pc = "prepare" =>
              /\ hist[p].created = frame[p].document
              /\ frame[p].document # NoDoc
              /\ frame[p].document \in Ids(documents)
                    => Row(documents, frame[p].document).status = "processing"
    /\ \A r \in documents :
          r.status = "processed" => StoredPositions(r.id) = 0..(produced[r.id] - 1)

W4_ProcessedHasAllChunks ==
    \E r \in documents :
        /\ r.status = "processed"
        /\ produced[r.id] = MaxChunks
        /\ Cardinality(StoredPositions(r.id)) = MaxChunks

\* C5 (Spec): a call that raises after it created its document row has
\* tried to set that row to status error with the exception's message, and
\* raises the original exception, also when that status update failed.
C5_OriginalExceptionPropagates ==
    \A p \in Workers :
        (Done(p) /\ hist[p].created # NoDoc /\ frame[p].raised # NoExc) =>
            /\ frame[p].raised = frame[p].exc
            /\ hist[p].err_attempt = frame[p].exc
            /\ (~hist[p].update_failed /\ hist[p].created \in Ids(documents)) =>
                  /\ Row(documents, hist[p].created).status = "error"
                  /\ Row(documents, hist[p].created).error_message = frame[p].raised

W5_OriginalExceptionPropagates ==
    \E p \in Workers :
        /\ Done(p) /\ hist[p].created # NoDoc
        /\ hist[p].update_failed
        /\ frame[p].raised = "InsertChunksError"

\* C6 (SpecSeq): a call that finds its file's row in status error, with no
\* other client at work, deletes that row, creates a new row of the same
\* hash under another identifier, and on success returns it, in status
\* processed, with was_duplicate = FALSE.
C6_ErrorRowIsReplaced ==
    (hist[1].saw_error # NoDoc /\ seq.quiet) =>
        /\ frame[1].pc \notin {"refetch"}
        /\ (frame[1].pc = "insert" \/ hist[1].created # NoDoc) =>
              hist[1].saw_error \notin Ids(documents)
        /\ hist[1].created # NoDoc =>
              /\ hist[1].created # hist[1].saw_error
              /\ Row(documents, hist[1].created).file_hash = sha256(frame[1].file_path)
        /\ ReturnedOk(1) =>
              /\ ~frame[1].result.was_duplicate
              /\ frame[1].result.document = hist[1].created
              /\ Row(documents, hist[1].created).status = "processed"

W6_ErrorRowIsReplaced ==
    /\ hist[1].saw_error # NoDoc /\ seq.quiet
    /\ ReturnedOk(1)
    /\ frame[1].result.chunks_count > 0

\* C7 (SpecBatch): when ingest_batch with max_workers > 1 has returned, its
\* list has one element per input file and the i-th element is the outcome
\* of the ingest_document call made on file_paths[i] - that call's result,
\* or the error result of its exception - whatever order the tasks completed
\* and were gathered in.
C7_ResultsInInputOrder ==
    (batch.pc = "returned" /\ batch.max_workers > 1) =>
        /\ Len(batch.results) = Total
        /\ \A i \in 1..Total :
              /\ batch.future[i].path = batch.file_paths[i]
              /\ batch.results[i] = batch_result(batch.future[i])

W7_ResultsInInputOrder ==
    /\ batch.pc = "returned" /\ batch.max_workers > 1
    /\ batch.order = <<2, 1>>
    /\ batch.results[1] # batch.results[2]

\* C8 (SpecLegacy, SpecBatch): when ingest_batch has returned, its list has
\* exactly len(file_paths) elements; every file was ingested; the element of
\* a file whose ingest raised carries a non-null error and a null document,
\* and the element of a file whose ingest returned is that result.
C8_OneResultPerFile ==
    batch.pc = "returned" =>
        /\ Len(batch.results) = Total
        /\ \A i \in 1..Total :
              /\ batch.future[i].raised # "pending"
              /\ batch.future[i].raised # NoExc =>
                    /\ batch.results[i].error # NoExc
                    /\ batch.results[i].document = NoDoc
              /\ batch.future[i].raised = NoExc =>
                    batch.results[i] = batch.future[i].result

\* C9 as stated (SpecSeq): with allowed_dirs set, a call on a path outside
\* every allowed directory raises PathValidationError, computes no hash,
\* looks nothing up and writes nothing.
C9_OutsideRaisesPathValidationError ==
    (Done(1) /\ allowed_dirs /\ ~is_relative_to_allowed(frame[1].file_path)) =>
        /\ frame[1].raised = "PathValidationError"
        /\ ~hist[1].hashed /\ ~hist[1].looked_up /\ ~hist[1].wrote
        /\ hist[1].created = NoDoc

\* C9 as amended (SpecSeq): with allowed_dirs set, a call on a path outside
\* every allowed directory raises PathValidationError when the file exists
\* and FileNotFoundError when it does not, and in both cases computes no
\* hash, looks nothing up and writes nothing.
C9_OutsideIsRejectedBeforeHashing ==
    (Done(1) /\ allowed_dirs /\ ~is_relative_to_allowed(frame[1].file_path)) =>
        /\ frame[1].raised = IF exists(frame[1].file_path)
                             THEN "PathValidationError" ELSE "FileNotFoundError"
        /\ ~hist[1].hashed /\ ~hist[1].looked_up /\ ~hist[1].wrote
        /\ hist[1].created = NoDoc

W9_OutsideIsRejectedBeforeHashing ==
    /\ Done(1) /\ allowed_dirs
    /\ frame[1].file_path = "copy.pdf"
    /\ frame[1].raised = "PathValidationError"
    /\ documents # {}

\* C10 (SpecSearch): the list hybrid_search returns holds no chunk identifier
\* twice, whatever the store holds, the query and top_k, also when a chunk is
\* in the vector leg's list and in the lexical leg's list with the same score.
C10_NoDuplicateChunkIds ==
    search.pc = "returned" =>
        \A i, j \in 1..Len(search.results) :
            i # j => search.results[i].chunk # search.results[j].chunk

W10_NoDuplicateChunkIds ==
    /\ search.pc = "returned"
    /\ \E i \in 1..Len(search.vector), j \in 1..Len(search.lexical) :
          /\ search.vector[i] = search.lexical[j]
          /\ \E k \in 1..Len(search.results) :
                search.results[k].chunk = search.vector[i].chunk
    /\ Len(search.results) = 2

C12_ScoreOfSameCandidate ==
    reranker.pc = "returned" =>
        \A k \in 1..Len(reranker.reranked) :
            \E i \in 1..Len(reranker.results) :
                /\ reranker.reranked[k].chunk = reranker.results[i].chunk
                /\ reranker.reranked[k].document = reranker.results[i].document
                /\ reranker.reranked[k].score = reranker.scores[i]
                /\ reranker.reranked[k].score # InputScore

W12_ScoreOfSameCandidate ==
    /\ reranker.pc = "returned"
    /\ reranker.kind = "CohereReranker"
    /\ Len(reranker.reranked) = 2
    /\ reranker.reranked[1].chunk = reranker.results[2].chunk
    /\ reranker.reranked[1].score # reranker.reranked[2].score

\* C18 (SpecRerank): rerank of either reranker, called with an empty
\* candidate list, returns an empty list and makes no call to the backing
\* model or API, whatever top_k is.
C18_EmptyInEmptyOut ==
    (reranker.pc # "idle" /\ reranker.results = <<>>) =>
        /\ reranker.pc = "returned"
        /\ reranker.reranked = <<>>
        /\ reranker.calls = 0

W18_EmptyInEmptyOut ==
    /\ reranker.pc = "returned"
    /\ reranker.kind = "CohereReranker"
    /\ reranker.results = <<>>
    /\ reranker.top_k = MaxTopK

\* C19 (SpecRerank): when the call of the backing model or API fails, rerank
\* raises that error to its caller and returns nothing: not the candidates as
\* they came, not a partial list, not an empty list.
C19_ModelFailureRaises ==
    reranker.failed =>
        /\ reranker.pc = "raised"
        /\ reranker.raised # NoExc
        /\ reranker.reranked = <<>>

W19_ModelFailureRaises ==
    /\ reranker.failed
    /\ reranker.kind = "CrossEncoderReranker"
    /\ Len(reranker.results) = 2
    /\ reranker.pc = "raised"

\* C13 (Spec): in every step, a row that stays in the table does not go from
\* processed to processing and does not leave status error; a row that
\* appears has an identifier never handed out before and starts in
\* processing.  So a hash whose row is in error gets a row of another status
\* only by the deletion of that row and the creation of a new one.
StatusStep ==
    /\ \A r \in documents : \A q \in documents' :
          q.id = r.id =>
             /\ r.status = "processed" => q.status # "processing"
             /\ r.status = "error" => q.status = "error"
             /\ q.file_hash = r.file_hash
    /\ \A q \in documents' :
          q.id \notin Ids(documents) =>
             /\ q.id > next_id
             /\ q.status = "processing"

C13_StatusNeverGoesBack == [][StatusStep]_vars

W13_StatusNeverGoesBack ==
    \E p \in Workers :
        /\ ReturnedOk(p)
        /\ hist[p].saw_error # NoDoc
        /\ hist[p].created > hist[p].saw_error
        /\ hist[p].created \in Ids(documents)
        /\ Row(documents, hist[p].created).status = "processed"
        /\ \A r \in documents : r.id # hist[p].saw_error

\* C14 (Spec): the lookup of a call that finds a row of the file's hash in
\* status processed or processing - also the row of a call still at work -
\* ends the call at once with that document, was_duplicate = TRUE and
\* chunks_count = 0, and changes neither table; such a call has written
\* nothing to the store.
LiveRowFound(p) ==
    /\ frame[p].pc = "lookup"
    /\ get_document_by_hash(documents, frame[p].file_hash) # NoDoc
    /\ Row(documents, get_document_by_hash(documents, frame[p].file_hash)).status
          \in {"processed", "processing"}

DuplicateStep ==
    \A p \in Workers :
        (LiveRowFound(p) /\ frame'[p] # frame[p]) =>
            /\ frame'[p].pc = "done"
            /\ frame'[p].raised = NoExc
            /\ frame'[p].result =
                  [document |-> get_document_by_hash(documents, frame[p].file_hash),
                   chunks_count |-> 0, was_duplicate |-> TRUE, error |-> NoExc]
            /\ ~hist'[p].wrote
            /\ documents' = documents
            /\ chunks' = chunks

NoWriteBeforeLookup == \A p \in Workers : frame[p].pc = "lookup" => ~hist[p].wrote

C14_DuplicateLeavesStore == []NoWriteBeforeLookup /\ [][DuplicateStep]_vars

W14_DuplicateLeavesStore ==
    \E p, q \in Workers :
        /\ ReturnedOk(p)
        /\ frame[p].result.was_duplicate
        /\ ~hist[p].wrote
        /\ frame[q].pc = "insert_chunks"
        /\ frame[q].document = frame[p].result.document
        /\ frame[q].document \in Ids(documents)
        /\ Row(documents, frame[q].document).status = "processing"

\* C15 (Spec): a call that saw an error row and whose delete_document found
\* no row (another ingestion had deleted it) fetches by hash again; when that
\* finds a row, the call returns it as a duplicate (was_duplicate = TRUE,
\* chunks_count = 0): it does not raise and inserts no second row.
LostDelete ==
    \A p \in Workers :
        frame[p].pc = "refetch" =>
            /\ hist[p].saw_error # NoDoc
            /\ hist[p].saw_error \notin Ids(documents)
            /\ hist[p].created = NoDoc

RefetchStep ==
    \A p \in Workers :
        ( /\ frame[p].pc = "refetch"
          /\ get_document_by_hash(documents, frame[p].file_hash) # NoDoc
          /\ frame'[p] # frame[p] ) =>
            /\ frame'[p].pc = "done"
            /\ frame'[p].raised = NoExc
            /\ frame'[p].result =
                  [document |-> get_document_by_hash(documents, frame[p].file_hash),
                   chunks_count |-> 0, was_duplicate |-> TRUE, error |-> NoExc]
            /\ documents' = documents
            /\ chunks' = chunks

C15_LostDeleteReturnsDuplicate == []LostDelete /\ [][RefetchStep]_vars

W15_LostDeleteReturnsDuplicate ==
    \E p \in Workers :
        /\ ReturnedOk(p)
        /\ frame[p].result.was_duplicate
        /\ hist[p].saw_error # NoDoc
        /\ frame[p].result.document # hist[p].saw_error
        /\ HashRows(documents, sha256(frame[p].file_path)) =
              {Row(documents, frame[p].result.document)}

C17_EmptyStoreEmptyList ==
    search.chunks = {} =>
        /\ search.vector = <<>> /\ search.lexical = <<>>
        /\ search.pc = "returned" => search.results = <<>>
        /\ (search.pc = "legs" /\ search.have_vector /\ search.have_lexical) =>
              ENABLED Merge

W17_EmptyStoreEmptyList ==
    /\ search.chunks = {}
    /\ search.pc = "returned"
    /\ search.top_k = MaxTopK
    /\ search.query = Terms
    /\ search.results = <<>>

ChunkRow(id) == CHOOSE c \in search.chunks : c.id = id

\* C20 (SpecSearch): the vector search returns at most top_k results, none
\* of a chunk whose embedding is null, in ascending distance to the query
\* (the score, 1 - distance, does not increase along the list); with no
\* embedded chunk in the store it returns the empty list.
C20_VectorSearch ==
    search.have_vector =>
        /\ Len(search.vector) <= search.top_k
        /\ \A i \in 1..Len(search.vector) :
              /\ \E c \in search.chunks : c.id = search.vector[i].chunk
              /\ ChunkRow(search.vector[i].chunk).embedding # NoEmbedding
              /\ search.vector[i].score =
                    1 - cosine_distance(ChunkRow(search.vector[i].chunk).embedding,
                                        search.query_embedding)
        /\ \A i, j \in 1..Len(search.vector) :
              i < j => search.vector[i].score >= search.vector[j].score
        /\ (\A c \in search.chunks : c.embedding = NoEmbedding) =>
              search.vector = <<>>

W20_VectorSearch ==
    /\ search.have_vector
    /\ search.top_k = 1
    /\ Len(search.vector) = 1
    /\ \E c, d \in search.chunks :
          /\ c.embedding = NoEmbedding
          /\ d.embedding # NoEmbedding
          /\ d.embedding # search.query_embedding
          /\ c.id < d.id

\* C21 (Spec): a delete_document call returns true exactly when a row of
\* that id was in the table, and its step removes that row and every chunk
\* of it; it returns false, and changes nothing, when there is no such row
\* (another call deleted it first).  No chunk refers to a missing document,
\* and an identifier that has left the table never comes back.
NoOrphanChunks == \A c \in chunks : c.document_id \in Ids(documents)

DeleteStep ==
    /\ \A p \in Workers :
          (frame[p].pc = "delete" /\ frame'[p] # frame[p]) =>
              IF frame[p].existing \in Ids(documents)
              THEN /\ frame'[p].pc = "insert"
                   /\ documents' = documents \ {Row(documents, frame[p].existing)}
                   /\ \A c \in chunks' : c.document_id # frame[p].existing
              ELSE /\ frame'[p].pc = "refetch"
                   /\ documents' = documents
                   /\ chunks' = chunks
    /\ \A id \in 1..next_id :
          id \notin Ids(documents) => id \notin Ids(documents')
    /\ \A id \in Ids(documents) \ Ids(documents') :
          \A c \in chunks' : c.document_id # id

C21_DeleteReturnsWhetherRemoved == []NoOrphanChunks /\ [][DeleteStep]_vars

W21_DeleteReturnsWhetherRemoved ==
    \E p, q \in Workers :
        /\ frame[p].pc = "refetch"
        /\ frame[q].pc = "insert"
        /\ hist[q].saw_error = hist[p].saw_error
        /\ hist[q].wrote
        /\ hist[p].saw_error \notin Ids(documents)

\* C22 (SpecTxn): at no time before insert_document_with_chunks has
\* returned is its document row or any of its chunk rows in the tables a
\* reader sees; a call that failed in any statement has raised that
\* statement's exception and has left no row; when the call has returned, the
\* document row and all its chunks are there, and no reader has seen the
\* document without all of its chunks.
C22_AllOrNothing ==
    /\ txn.pc = "raised" => (txn.raised # NoExc /\ txn.raised = txn.exc)
    /\ txn.id # NoDoc =>
          /\ txn.pc # "returned" =>
                /\ txn.id \notin Ids(documents)
                /\ \A c \in chunks : c.document_id # txn.id
          /\ txn.pc = "returned" =>
                /\ txn.result = txn.id
                /\ txn.id \in Ids(documents)
                /\ Row(documents, txn.id).file_hash = txn.file_hash
                /\ StoredPositions(txn.id) = 0..(txn.n_chunks - 1)
          /\ txn.seen # <<>> =>
                /\ txn.seen[1] => (txn.pc = "returned" /\ txn.seen[2] = txn.n_chunks)
                /\ ~txn.seen[1] => txn.seen[2] = 0

W22_AllOrNothing ==
    /\ txn.pc = "raised"
    /\ txn.raised = "InsertChunksError"
    /\ txn.id # NoDoc
    /\ txn.n_chunks = MaxChunks
    /\ txn.seen = <<FALSE, 0>>
    /\ documents # {}

\* C23 (SpecEmbed): the embeddings list of generate_embeddings has one entry
\* per input text, and entry i is the embedding of texts[i] or None, however
\* the texts fall into batches, after any retries and whatever order the API
\* returned a batch's items in; the entries that are None are those of the
\* failed indices, and the batches are the texts in their order.
Flat(batches) ==
    [i \in 1..texts_before(batches, Len(batches)) |->
        LET b == CHOOSE c \in 1..Len(batches) :
                     texts_before(batches, c - 1) < i /\ i <= texts_before(batches, c)
        IN batches[b][i - texts_before(batches, b - 1)]]

C23_EmbeddingsInInputOrder ==
    embedder.pc # "idle" =>
        /\ Len(embedder.embeddings) = Len(embedder.texts)
        /\ Flat(embedder.batches) = embedder.texts
        /\ \A b \in 1..Len(embedder.batches) : embedder.batches[b] # <<>>
        /\ \A i \in 1..Len(embedder.texts) :
              embedder.embeddings[i] \in
                  {embedding_of(embedder.texts[i]), NoEmbedding}
        /\ embedder.pc = "returned" =>
              \A i \in 1..Len(embedder.texts) :
                  embedder.embeddings[i] = NoEmbedding <=>
                      \E k \in 1..Len(embedder.failed_indices) :
                          embedder.failed_indices[k] = i - 1

W23_EmbeddingsInInputOrder ==
    /\ embedder.pc = "returned"
    /\ Len(embedder.texts) = MaxTexts
    /\ Len(embedder.batches) = 2
    /\ embedder.last[1].outcomes = <<"RateLimitError", "ok">>
    /\ embedder.last[1].reordered
    /\ \A i \in 1..MaxTexts : embedder.embeddings[i] = embedding_of(embedder.texts[i])

\* C26 (SpecEmbed): for one batch the API is called at most MAX_RETRIES
\* times; a call is followed by another only when it failed with a rate-limit
\* or 5xx error; any other error and the first success end the batch at
\* once; a batch that ended without a success - by such an error or by a
\* retryable error on the last attempt - gives all-None embeddings and the
\* error's message, and generate_embeddings goes on: nothing is raised.
RateLimitOr5xx == {"RateLimitError", "ServerError"}

BatchCalls(outcomes, done) ==
    /\ Len(outcomes) <= MAX_RETRIES
    /\ \A k \in 1..(Len(outcomes) - 1) : outcomes[k] \in RateLimitOr5xx
    /\ ~done => \A k \in 1..Len(outcomes) : outcomes[k] \in RateLimitOr5xx
    /\ ~done => Len(outcomes) < MAX_RETRIES
    /\ done =>
          /\ Len(outcomes) >= 1
          /\ outcomes[Len(outcomes)] \in RateLimitOr5xx =>
                Len(outcomes) = MAX_RETRIES

C26_AtMostMaxRetries ==
    /\ embedder.pc = "batch" =>
          /\ BatchCalls(embedder.outcomes, FALSE)
          /\ embedder.attempt = Len(embedder.outcomes)
    /\ embedder.pc = "returned" => embedder.outcomes = <<>>
    /\ \A j \in 1..Len(embedder.last) :
          LET r == embedder.last[j]
              final == r.outcomes[Len(r.outcomes)]
          IN /\ BatchCalls(r.outcomes, TRUE)
             /\ final = "ok" =>
                   /\ r.error = NoExc
                   /\ \A k \in 1..Len(r.embeddings) : r.embeddings[k] # NoEmbedding
             /\ final # "ok" =>
                   /\ r.error = final
                   /\ \A k \in 1..Len(r.embeddings) : r.embeddings[k] = NoEmbedding
                   /\ Len(r.embeddings) = Len(embedder.batches[embedder.b - 1])
                   /\ embedder.pc \in {"batch", "returned"}

W26_AtMostMaxRetries ==
    /\ embedder.pc = "returned"
    /\ Len(embedder.last) = 1
    /\ embedder.last[1].outcomes = <<"RateLimitError", "ServerError", "RateLimitError">>
    /\ embedder.last[1].error = "RateLimitError"
    /\ embedder.last[1].embeddings = <<NoEmbedding, NoEmbedding>>

\* C24 (SpecValidate): validate_file_path raises FileNotFoundError for every
\* path with no file, with or without allowed_dirs and also when the path
\* lies outside the allowed directories; it raises PathValidationError
\* exactly for a path whose file exists and which, allowed_dirs being given,
\* lies outside all of them; otherwise it returns.
C24_NotFoundBeforeOutside ==
    \A k \in 1..Len(validation) :
        LET v == validation[k] IN
        /\ ~exists(v.file_path) => v.raised = "FileNotFoundError"
        /\ v.raised = "FileNotFoundError" => ~exists(v.file_path)
        /\ v.raised = "PathValidationError" <=>
              (exists(v.file_path) /\ v.allowed /\ ~is_relative_to_allowed(v.file_path))
        /\ v.raised \in {NoExc, "FileNotFoundError", "PathValidationError"}

W24_NotFoundBeforeOutside ==
    /\ Len(validation) = 3
    /\ validation[1] = [file_path |-> "ghost.pdf", allowed |-> TRUE,
                        raised |-> "FileNotFoundError"]
    /\ validation[2] = [file_path |-> "copy.pdf", allowed |-> TRUE,
                        raised |-> "PathValidationError"]
    /\ validation[3] = [file_path |-> "missing.pdf", allowed |-> FALSE,
                        raised |-> "FileNotFoundError"]

\* C25 (SpecBatch): in ingest_batch with max_workers > 1 every task opens a
\* connection of its own; an ingest_document call runs only inside a task
\* and on that task's connection, never on the pipeline's; no two running
\* calls have the same connection; the open connections are exactly those of
\* the running tasks, so a task's connection is closed when the task ends,
\* by return or by exception; when the batch has returned, one connection
\* per file has been opened and none is open.
C25_OneConnectionPerWorker ==
    batch.max_workers > 1 =>
        /\ \A p \in Workers :
              /\ Busy(p) => batch.running[p] # 0
              /\ batch.running[p] # 0 =>
                    /\ batch.db[p] \in batch.open
                    /\ batch.db[p] # PipelineConn
              /\ batch.running[p] = 0 => batch.db[p] = NoConn
        /\ \A p, q \in Workers :
              (p # q /\ batch.running[p] # 0 /\ batch.running[q] # 0) =>
                  batch.db[p] # batch.db[q]
        /\ batch.open = {batch.db[p] : p \in {q \in Workers : batch.running[q] # 0}}
        /\ batch.opened = Total - Len(batch.queue)
        /\ batch.pc = "returned" => (batch.open = {} /\ batch.opened = Total)

W25_OneConnectionPerWorker ==
    /\ batch.max_workers > 1
    /\ batch.pc = "par"
    /\ Cardinality(batch.open) = 1
    /\ batch.opened = 2
    /\ \E i \in 1..Total : batch.future[i].raised = "FileNotFoundError"
    /\ \E p \in Workers : Busy(p) /\ batch.db[p] \in batch.open

\* C27 (Spec): a call whose embedding result has one entry per chunk, some
\* of them None, goes on to insert its chunks: once the insert is done, chunk
\* i of the document is in the table with embedding embeddings[i], null
\* where the entry is None, and no other chunk of it is; the call fails from
\* there on only when a database call fails, and otherwise returns the
\* document in status processed with chunks_count = the number of chunks.
ChunksOf(id) == {c \in chunks : c.document_id = id}

AllChunksStored ==
    \A p \in Workers :
        ( /\ frame[p].pc = "mark"
          /\ frame[p].n_chunks > 0
          /\ frame[p].document \in Ids(documents) ) =>
            /\ Cardinality(ChunksOf(frame[p].document)) = frame[p].n_chunks
            /\ \A i \in 1..frame[p].n_chunks :
                  [document_id |-> frame[p].document, position |-> i - 1,
                   embedding |-> frame[p].embeddings[i]] \in chunks

NoneDoesNotAbort ==
    \A p \in Workers :
        /\ (frame[p].pc = "prepare" /\ frame'[p].pc = "except") =>
              /\ frame'[p].exc \in {"ParseError", "ValueError"}
              /\ frame'[p].exc = "ValueError" => embedding_client
        /\ (frame[p].pc = "insert_chunks" /\ frame'[p] # frame[p]) =>
              \/ frame'[p].pc = "mark"
              \/ (frame'[p].pc = "except" /\ frame'[p].exc = "InsertChunksError")
        /\ (frame[p].pc = "mark" /\ frame'[p] # frame[p]) =>
              \/ /\ frame'[p].pc = "done"
                 /\ frame'[p].raised = NoExc
                 /\ frame'[p].result =
                       [document |-> frame[p].document,
                        chunks_count |-> frame[p].n_chunks,
                        was_duplicate |-> FALSE, error |-> NoExc]
                 /\ frame[p].document \in Ids(documents) =>
                       Row(documents', frame[p].document).status = "processed"
              \/ (frame'[p].pc = "except" /\ frame'[p].exc = "StatusUpdateError")

C27_FailedEmbeddingsStoredAsNull == []AllChunksStored /\ [][NoneDoesNotAbort]_vars

W27_FailedEmbeddingsStoredAsNull ==
    \E p \in Workers :
        /\ ReturnedOk(p)
        /\ ~frame[p].result.was_duplicate
        /\ frame[p].result.chunks_count = 2
        /\ frame[p].result.document \in Ids(documents)
        /\ Row(documents, frame[p].result.document).status = "processed"
        /\ ChunksOf(frame[p].result.document) =
              {[document_id |-> frame[p].result.document, position |-> 0,
                embedding |-> NoEmbedding],
               [document_id |-> frame[p].result.document, position |-> 1,
                embedding |-> 1]}

\* C28 (SpecChunk): the k-th chunk chunk_parsed_document returns has
\* position k - 1: the positions start at 0, are unique and go up by one
\* along the list, from page to page and from a page's text chunks to its
\* tables, and items that emit no chunk use up no position; the rows built
\* from the list carry the same positions, which are those of chunk_records.
RECURSIVE CountEmitted(_)
CountEmitted(items) ==
    IF items = <<>> THEN 0
    ELSE (IF Head(items) \in {"text", "table"} THEN 1 ELSE 0) + CountEmitted(Tail(items))

RECURSIVE CountChunks(_)
CountChunks(doc) ==
    IF doc = <<>> THEN 0
    ELSE CountEmitted(Head(doc).texts) + CountEmitted(Head(doc).tables)
         + CountChunks(Tail(doc))

C28_PositionsCountUp ==
    chunker.pc # "idle" =>
        LET list == chunker.chunk_data_list IN
        /\ Len(list) = CountChunks(chunker.doc)
        /\ \A k \in 1..Len(list) : list[k].position = k - 1
        /\ \A j, k \in 1..Len(list) :
              j < k => list[j].position < list[k].position
        /\ chunker.pc = "stored" =>
              /\ {r.position : r \in chunker.rows} = 0..(Len(list) - 1)
              /\ Cardinality(chunker.rows) = Len(list)
              /\ chunker.rows =
                    chunk_records(1, [i \in 1..Len(list) |-> NoEmbedding])

W28_PositionsCountUp ==
    /\ chunker.pc = "stored"
    /\ Len(chunker.doc) = 2
    /\ chunker.doc[1] = [texts |-> <<"text", "blank">>, tables |-> <<"table">>]
    /\ chunker.doc[2] = [texts |-> <<"blank", "text">>, tables |-> <<>>]
    /\ Len(chunker.chunk_data_list) = 3
    /\ chunker.chunk_data_list[2] =
          [chunk_type |-> "table", page_number |-> 1, position |-> 1]
    /\ chunker.chunk_data_list[3] =
          [chunk_type |-> "paragraph", page_number |-> 2, position |-> 2]

\* C29 (SpecFixed): in a fixed_size_chunking call with chunk_size > 0 and
\* 0 <= overlap < chunk_size, every loop iteration that is followed by
\* another one leaves start strictly greater than it found it, also when the
\* chunk was cut back to a space fewer than overlap characters after start.
C29_StartAdvances ==
    [][(/\ fixed.pc = "loop"
        /\ fixed'.pc = "loop"
        /\ fixed.chunk_size > 0
        /\ 0 <= fixed.overlap
        /\ fixed.overlap < fixed.chunk_size) => fixed'.start > fixed.start]_vars

\* C30 (Spec): a finished ingest_document call, returned or raised, that
\* created a document row has left that row, while it exists, in status
\* processed or error, never in processing.
C30_CreatedRowIsFinalized ==
    \A p \in Workers :
        (/\ Done(p)
         /\ hist[p].created # NoDoc
         /\ hist[p].created \in Ids(documents)) =>
            Row(documents, hist[p].created).status \in {"processed", "error"}

====
